---- MODULE Spec2Model ----
(***************************************************************************)
(* Model of the review pipeline: the pull-request script                   *)
(* (src/scripts/index.js, lines 1-287), the repository analyser            *)
(* (src/scripts/index.js, lines 288-1189) and the GitHub-App pull-request  *)
(* analyser (src/unnamed/part_000).                                        *)
(*                                                                         *)
(* A file is the record the batching loop reads:                           *)
(*   fetch  "ok" | "throw"   outcome of the content request (repository)   *)
(*   has    f.patch is truthy / fileContent.encoding === 'base64'          *)
(*   size   f.patch.length / content.length                                *)
(*   adds   f.additions / content.split('\n').length                       *)
(*   test   /test|spec/i matches the path                                  *)
(*   lic    the license pattern matches the patch / content                *)
(*   excl   the path is on one of CONFIG's exclusion lists                 *)
(* Its path is its position in the fetched list.                           *)
(*                                                                         *)
(* SpecBatch runs the batching loops alone, on lists long enough to fill   *)
(* a batch by file count; Spec runs batching and the analysis loop on      *)
(* short lists; SpecRollup does the same with every quality string and     *)
(* SpecPatterns with overlapping pattern lists; SpecRun runs a script from *)
(* its trigger to its exit; SpecParse runs the rule parsers alone.         *)
(* Numbers are IEEE 754 doubles, rounded as JavaScript rounds them.        *)
(***************************************************************************)
EXTENDS Integers, Sequences, FiniteSets, TLC

\* ------------------------------------------------------------ bounds
MaxFiles == 26
MaxRunFiles == 5
MaxRollupFiles == 4
MaxUncommon == 1
MaxExitFiles == 2
MaxRunSections == 2
MaxSections == 2
MaxItems == 2
MaxPages == 2
MaxDirs == 3
MaxFolders == 2

\* ------------------------------------------------- program constants
MAX_DIFF_LENGTH == 20000
MAX_BATCH_SIZE == 800000
MAX_FILES_PER_BATCH == 25
TruncateAt == 12000
TruncationNoteLength == 37
maxBatchSize == 1200000
maxFilesPerBatch == 15
NotifyAbove == 55
PER_PAGE == 100

Modes == {"pr", "repo", "app"}

\* ------------------------------------------------------------ inputs
File(fetch, has, size, adds, test, lic, excl) ==
    [fetch |-> fetch, has |-> has, size |-> size, adds |-> adds,
     test |-> test, lic |-> lic, excl |-> excl]

PRFiles ==
    { File("ok", TRUE, 1, 1, FALSE, FALSE, FALSE),
      File("ok", TRUE, 10000, 2, TRUE, FALSE, FALSE),
      File("ok", TRUE, 20001, 3, FALSE, TRUE, FALSE),
      File("ok", FALSE, 0, 1, TRUE, FALSE, FALSE) }

RepoFiles ==
    { File("ok", TRUE, 1, 1, FALSE, FALSE, FALSE),
      File("ok", TRUE, 12001, 2, TRUE, FALSE, FALSE),
      File("ok", TRUE, 800001, 3, FALSE, TRUE, FALSE),
      File("ok", FALSE, 1, 1, TRUE, TRUE, FALSE),
      File("throw", FALSE, 0, 0, TRUE, FALSE, FALSE) }

AppFiles ==
    { File("ok", TRUE, 1, 1, FALSE, FALSE, FALSE),
      File("ok", TRUE, 1199999, 2, TRUE, FALSE, FALSE),
      File("ok", TRUE, 1200001, 3, FALSE, TRUE, FALSE),
      File("ok", TRUE, 1, 1, TRUE, TRUE, TRUE) }

FilesOf(m) == IF m = "pr" THEN PRFiles ELSE IF m = "repo" THEN RepoFiles ELSE AppFiles

\* A run's file list is mostly files like its first one, with at most
\* MaxUncommon files of another kind.
Uncommon(fs) == Cardinality({j \in DOMAIN fs : fs[j] # fs[1]})

MayFetch(fs, f) ==
    IF fs = << >> THEN TRUE
    ELSE IF f = fs[1] THEN TRUE
    ELSE Uncommon(fs) < MaxUncommon

\* ----------------------------------------------------------- helpers
RECURSIVE Flatten(_)
Flatten(bs) == IF bs = << >> THEN << >> ELSE Head(bs) \o Flatten(Tail(bs))

RECURSIVE SumSizes(_)
SumSizes(b) == IF b = << >> THEN 0 ELSE Head(b).size + SumSizes(Tail(b))

Paths(b) == [j \in DOMAIN b |-> b[j].path]

\* content.length > 12000 ? content.slice(0, 12000) + note : content
TruncatedLength(size) ==
    IF size > TruncateAt THEN TruncateAt + TruncationNoteLength ELSE size

\* ------------------------------------------------- JavaScript strings
\* Strings are indexed from 1 here: CharAt(s, j) is s.charAt(j - 1), which is
\* '' outside the string.
CharAt(s, j) == IF j \in 1..Len(s) THEN SubSeq(s, j, j) ELSE ""

\* s.slice(j - 1)
From(s, j) == SubSeq(s, j, Len(s))

\* The characters of a string, as a set.
Characters(s) == {CharAt(s, j) : j \in 1..Len(s)}

\* The lowest and the highest of a set of positions, 0 for the empty set.
Lowest(places) ==
    IF places = {} THEN 0 ELSE CHOOSE j \in places : \A k \in places : j <= k

Highest(places) ==
    IF places = {} THEN 0 ELSE CHOOSE j \in places : \A k \in places : k <= j

\* The white space and line terminators that trim() removes, of those a
\* text here can hold.
WhiteSpace == {" ", "\t", "\n", "\r", "\f"}

\* The places of s that hold no white space.
Inked(s) == {j \in 1..Len(s) : CharAt(s, j) \notin WhiteSpace}

\* The part of s from the first to the last of the places, '' when there is
\* none.
Span(s, places) == IF places = {} THEN "" ELSE SubSeq(s, Lowest(places), Highest(places))

trim(s) == Span(s, Inked(s))

startsWith(s, t) == Len(t) <= Len(s) /\ SubSeq(s, 1, Len(t)) = t

endsWith(s, t) == Len(t) <= Len(s) /\ SubSeq(s, Len(s) - Len(t) + 1, Len(s)) = t

\* The places where t is in s.
Occurrences(s, t) ==
    {j \in 1..(Len(s) - Len(t) + 1) : SubSeq(s, j, j + Len(t) - 1) = t}

\* s.indexOf(t) + 1
indexOf(s, t) == Lowest(Occurrences(s, t))

includes(s, t) == Occurrences(s, t) # {}

\* s.split(t), for t other than '', with t first found at k
RECURSIVE SplitAt(_, _, _)
SplitAt(s, t, k) ==
    IF k = 0 THEN << s >>
    ELSE << SubSeq(s, 1, k - 1) >>
         \o SplitAt(From(s, k + Len(t)), t, indexOf(From(s, k + Len(t)), t))

split(s, t) == SplitAt(s, t, indexOf(s, t))

\* ss.join(t)
RECURSIVE join(_, _)
join(ss, t) ==
    IF ss = << >> THEN ""
    ELSE IF Len(ss) = 1 THEN ss[1] ELSE ss[1] \o t \o join(Tail(ss), t)

\* ss.slice(1)
slice(ss) == IF ss = << >> THEN << >> ELSE Tail(ss)

LowerCase == "abcdefghijklmnopqrstuvwxyz"

UpperCase == "ABCDEFGHIJKLMNOPQRSTUVWXYZ"

Digits == "0123456789"

UpperCaseLetters == Characters(UpperCase)

\* c.toLowerCase(), for the letters A to Z
LowerCaseOf(c) ==
    IF c \in UpperCaseLetters THEN CharAt(LowerCase, indexOf(UpperCase, c)) ELSE c

\* s.toLowerCase()
toLowerCase(s) == join([j \in 1..Len(s) |-> LowerCaseOf(CharAt(s, j))], "")

\* String(n) for a whole number n >= 0
RECURSIVE DigitString(_)
DigitString(n) ==
    IF n < 10 THEN CharAt(Digits, n + 1)
    ELSE DigitString(n \div 10) \o CharAt(Digits, (n % 10) + 1)

\* The whole number a string of digits writes.
RECURSIVE DigitValue(_)
DigitValue(s) ==
    IF s = "" THEN 0
    ELSE 10 * DigitValue(SubSeq(s, 1, Len(s) - 1)) + indexOf(Digits, CharAt(s, Len(s))) - 1

DecimalDigits == Characters(Digits)

IsDigit(c) == c \in DecimalDigits

\* The length of the run of digits s begins with.
DigitRun(s) == Lowest({j \in 1..(Len(s) + 1) : ~IsDigit(CharAt(s, j))}) - 1

\* ------------------------------------------------- JavaScript numbers
\* Natural numbers of any size, for the significands below: a sequence of
\* digits in base 2^14, lowest digit first, without leading zero digits;
\* << >> is 0.
Base == 2 ^ 14

RECURSIVE NatDigits(_)
NatDigits(n) == IF n = 0 THEN << >> ELSE << n % Base >> \o NatDigits(n \div Base)

RECURSIVE NatInt(_)
NatInt(a) == IF a = << >> THEN 0 ELSE a[1] + Base * NatInt(Tail(a))

RECURSIVE NatStrip(_)
NatStrip(a) ==
    IF a = << >> THEN << >>
    ELSE IF a[Len(a)] = 0 THEN NatStrip(SubSeq(a, 1, Len(a) - 1)) ELSE a

\* a + b + c
RECURSIVE NatAdd(_, _, _)
NatAdd(a, b, c) ==
    IF a = << >> /\ b = << >> THEN NatDigits(c)
    ELSE LET x == IF a = << >> THEN 0 ELSE a[1]
             y == IF b = << >> THEN 0 ELSE b[1]
             t == x + y + c
         IN  << t % Base >> \o NatAdd(IF a = << >> THEN << >> ELSE Tail(a),
                                      IF b = << >> THEN << >> ELSE Tail(b),
                                      t \div Base)

\* The digits of a - b - c, for a >= b + c, leading zeros included.
RECURSIVE NatBorrow(_, _, _)
NatBorrow(a, b, c) ==
    IF a = << >> THEN << >>
    ELSE LET y == IF b = << >> THEN 0 ELSE b[1]
             t == a[1] - y - c
         IN  << t % Base >> \o NatBorrow(Tail(a), IF b = << >> THEN << >> ELSE Tail(b),
                                         IF t < 0 THEN 1 ELSE 0)

NatSubtract(a, b) == NatStrip(NatBorrow(a, b, 0))

\* a < b
RECURSIVE NatLess(_, _)
NatLess(a, b) ==
    IF Len(a) # Len(b) THEN Len(a) < Len(b)
    ELSE IF a = << >> THEN FALSE
    ELSE IF a[Len(a)] # b[Len(b)] THEN a[Len(a)] < b[Len(b)]
    ELSE NatLess(NatStrip(SubSeq(a, 1, Len(a) - 1)), NatStrip(SubSeq(b, 1, Len(b) - 1)))

\* a * k + c, for k <= Base and c <= Base
RECURSIVE NatTimesSmall(_, _, _)
NatTimesSmall(a, k, c) ==
    IF a = << >> THEN NatDigits(c)
    ELSE LET t == a[1] * k + c
         IN  << t % Base >> \o NatTimesSmall(Tail(a), k, t \div Base)

RECURSIVE NatTimes(_, _)
NatTimes(a, b) ==
    IF a = << >> \/ b = << >> THEN << >>
    ELSE LET rest == NatTimes(a, Tail(b))
         IN  NatAdd(NatTimesSmall(a, b[1], 0),
                    IF rest = << >> THEN << >> ELSE << 0 >> \o rest, 0)

\* Quotient q (leading zeros included) and remainder r of a by d, for d <= 2^16.
RECURSIVE NatDivideSmall(_, _)
NatDivideSmall(a, d) ==
    IF a = << >> THEN [q |-> << >>, r |-> 0]
    ELSE LET high == NatDivideSmall(Tail(a), d)
             t == high.r * Base + a[1]
         IN  [q |-> << t \div d >> \o high.q, r |-> t % d]

\* a * 2^k
NatShiftLeft(a, k) ==
    IF a = << >> THEN << >>
    ELSE [j \in 1..(k \div 14) |-> 0] \o NatTimesSmall(a, 2 ^ (k % 14), 0)

\* floor(a / 2^k)
NatShiftRight(a, k) ==
    IF k \div 14 >= Len(a) THEN << >>
    ELSE NatStrip(NatDivideSmall(SubSeq(a, k \div 14 + 1, Len(a)), 2 ^ (k % 14)).q)

RECURSIVE Bits(_)
Bits(n) == IF n = 0 THEN 0 ELSE 1 + Bits(n \div 2)

\* The number of binary digits of a.
NatBits(a) == IF a = << >> THEN 0 ELSE 14 * (Len(a) - 1) + Bits(a[Len(a)])

\* A Number is an IEEE 754 double. Those the scripts compute are zero or
\* positive, and normal: [m, e] is m * 2^e, with m = 0 and e = 0, or
\* 2^52 <= m < 2^53.
Zero == [m |-> << >>, e |-> 0]

\* 1 is 2^52 * 2^-52
One == [m |-> << 0, 0, 0, 2 ^ 10 >>, e |-> -52]

\* The double nearest to n * 2^e, or to a little more when `more` says that
\* the exact value exceeds n * 2^e by less than 2^e; ties go to the even
\* significand.
RoundToDouble(n, e, more) ==
    LET bits == NatBits(n)
    IN  IF n = << >> THEN Zero
        ELSE IF bits <= 53
        THEN [m |-> NatShiftLeft(n, 53 - bits), e |-> e - (53 - bits)]
        ELSE LET s == bits - 53
                 q == NatShiftRight(n, s)
                 rest == NatSubtract(n, NatShiftLeft(q, s))
                 half == NatShiftLeft(<< 1 >>, s - 1)
                 up == \/ NatLess(half, rest)
                       \/ rest = half /\ (more \/ q[1] % 2 = 1)
                 m == IF up THEN NatAdd(q, << >>, 1) ELSE q
             IN  IF NatBits(m) = 54
                 THEN [m |-> NatShiftRight(m, 1), e |-> e + s + 1]
                 ELSE [m |-> m, e |-> e + s]

\* n / d for integers n >= 0 and d from 1 to 2^16: the quotient of two integer
\* Numbers, and the value of a decimal literal such as 0.85 (85 / 100).
Divide(n, d) ==
    LET x == NatDivideSmall(NatShiftLeft(NatDigits(n), 70), d)
    IN  RoundToDouble(NatStrip(x.q), -70, x.r # 0)

\* a * b
Multiply(a, b) == RoundToDouble(NatTimes(a.m, b.m), a.e + b.e, FALSE)

\* The significand of a at the exponent e <= a.e.
Aligned(a, e) == NatShiftLeft(a.m, a.e - e)

Lower(a, b) == IF a.e < b.e THEN a.e ELSE b.e

\* a + b
Add(a, b) ==
    IF a = Zero THEN b
    ELSE IF b = Zero THEN a
    ELSE LET e == Lower(a, b)
         IN  RoundToDouble(NatAdd(Aligned(a, e), Aligned(b, e), 0), e, FALSE)

\* a > b
Above(a, b) ==
    IF a = Zero THEN FALSE
    ELSE IF b = Zero THEN TRUE
    ELSE LET e == Lower(a, b) IN NatLess(Aligned(b, e), Aligned(a, e))

\* The integer nearest to 10 * a, the larger one when two are as near.
Tenths(a) ==
    IF a = Zero THEN 0
    ELSE IF a.e >= 0 THEN NatInt(NatShiftLeft(NatTimesSmall(a.m, 10, 0), a.e))
    ELSE NatInt(NatShiftRight(NatAdd(NatTimesSmall(a.m, 20, 0),
                                     NatShiftLeft(<< 1 >>, -a.e), 0),
                              1 - a.e))

\* a.toFixed(1), for a below 2^31 / 10
toFixed(a) == DigitString(Tenths(a) \div 10) \o "." \o DigitString(Tenths(a) % 10)

\* The Number a decimal numeral writes: digits, and after a point up to four
\* digits more.
DecimalPlaces(s) ==
    IF CharAt(s, DigitRun(s) + 1) = "." THEN DigitRun(From(s, DigitRun(s) + 2)) ELSE 0

NumeralLength(s) ==
    DigitRun(s) + (IF DecimalPlaces(s) > 0 THEN 1 + DecimalPlaces(s) ELSE 0)

NumeralValue(s) ==
    Divide(DigitValue(SubSeq(s, 1, DigitRun(s))
                      \o SubSeq(s, DigitRun(s) + 2, DigitRun(s) + 1 + DecimalPlaces(s))),
           10 ^ DecimalPlaces(s))

\* parseFloat(s), for a string that begins with a digit
parseFloat(s) == NumeralValue(s)

\* JavaScript values: numbers, booleans, strings, undefined, and the object
\* ctx.
Number(x) == [type |-> "number", number |-> x, boolean |-> FALSE, string |-> ""]

Boolean(b) == [type |-> "boolean", number |-> Zero, boolean |-> b, string |-> ""]

String(s) == [type |-> "string", number |-> Zero, boolean |-> FALSE, string |-> s]

Undefined == [type |-> "undefined", number |-> Zero, boolean |-> FALSE, string |-> ""]

Object == [type |-> "object", number |-> Zero, boolean |-> FALSE, string |-> ""]

\* The Number a whole number n >= 0 is.
Integer(n) == RoundToDouble(NatDigits(n), 0, FALSE)

\* The whole number a Number below 2^31 holds, without its fraction.
Whole(x) == IF x = Zero THEN 0 ELSE NatInt(NatShiftRight(x.m, -x.e))

\* const score = (overallAiProb * 100).toFixed(1); the app analyser:
\* overallAiProb.toFixed(1)
Score(m, p) == toFixed(IF m = "app" THEN p ELSE Multiply(p, Divide(100, 1)))

\* What a classifier call gives: it throws an error with a message, or
\* returns the tool arguments.
Verdict(p, q, ps, r) ==
    [ok |-> TRUE, ai_prob |-> p, code_quality |-> q, patterns_detected |-> ps,
     rationale |-> r, message |-> ""]

Thrown ==
    [ok |-> FALSE, ai_prob |-> Zero, code_quality |-> "",
     patterns_detected |-> << >>, rationale |-> "", message |-> "timeout"]

\* The app analyser asks for a score from 0 to 100, the others from 0 to 1.
RunVerdicts(m) ==
    IF m = "app"
    THEN { Thrown, Verdict(Divide(90, 1), "good", << "a" >>, "generic names"),
           Verdict(Divide(10, 1), "poor", << "a", "b" >>, "hand-written") }
    ELSE { Thrown, Verdict(Divide(9, 10), "good", << "a" >>, "generic names"),
           Verdict(Divide(1, 10), "poor", << "a", "b" >>, "hand-written") }

Qualities == {"poor", "average", "good", "excellent", "bogus", "Unknown"}

RollupVerdicts == {Thrown} \cup {Verdict(Divide(1, 2), q, << >>, "mixed") : q \in Qualities}

\* Pattern lists that repeat a string, within a verdict and across verdicts,
\* and that differ from one another by letter case only.
PatternVerdicts ==
    { Thrown,
      Verdict(Divide(1, 2), "good", << "a" >>, "mixed"),
      Verdict(Divide(1, 2), "good", << "A", "a" >>, "mixed"),
      Verdict(Divide(1, 2), "good", << "b", "a", "b" >>, "mixed") }

VARIABLES
    mode,               \* which of the three scripts runs
    pc,                 \* position of the script
    files,              \* the files fetched so far, in order
    codeFiles,          \* app: paths kept by filterCodeFiles
    batches, currentBatch, currentBatchSize,
    linesAdded, testsChanged, licenseComment,
    totalFiles,         \* repo: files whose content was read
    analyzed_files,     \* repo: reportData.analyzed_files
    analysis_status,    \* reportData.analysis_status
    i,                  \* index of the batch the analysis loop is at
    overallAiProb, allPatterns, allRationales, overallCodeQuality,
    score,              \* the score string, "" before it is computed
    calls,              \* what each classifier call made so far returned
    started,            \* the batch index of each classifier call started so far
    outstanding,        \* classifier calls started and not yet settled
    rulesText,          \* the text read from the rules file, as sections of lines
    rules,              \* the rules the parser returned
    r,                  \* rules whose condition has been handed to the evaluator
    failures, warnings,
    error,              \* message of the error that ended the run ("" when none)
    exitCode,           \* exit code of the process (-1 while it runs)
    notifications,      \* the chat notifications attempted, in order
    pending,            \* PR script: chat requests started and not yet completed
    allTreeItems,       \* the raw list handed to the file filter
    page, hasMoreFiles, allFiles,
    fetched,            \* getAllPRFiles: the requests made and their responses
    allItems, directoriesToProcess,
    treeFetches,        \* getAllTreeItems: the trees requested and the responses
    frames,             \* the calls of getAllItemsUsingContentsAPI under way
    contentsFetches,    \* the directories requested of the contents API, and the responses
    pr,                 \* event.pull_request.number
    owner, repo,        \* repo: the two names taken from the URL
    reportFileName,     \* repo: the name of the report file, "" before it is chosen
    saved,              \* repo: what each fs.writeFile that succeeded wrote
    issue               \* repo: the issue of the report: "none", "open" or "closed"

aggVars == << i, overallAiProb, allPatterns, allRationales, overallCodeQuality, score, calls,
              started, outstanding >>

tailVars == << rulesText, rules, r, failures, warnings, error, exitCode, notifications,
              pending >>

pageVars == << page, hasMoreFiles, allFiles, fetched >>

treeVars == << allItems, directoriesToProcess, treeFetches, frames, contentsFetches >>

siteVars == << pr, owner, repo, reportFileName, saved, issue >>

batchVars == << files, batches, currentBatch, currentBatchSize, linesAdded, testsChanged,
               licenseComment, totalFiles, analyzed_files >>

listVars == << allTreeItems, page, hasMoreFiles, allFiles, fetched, allItems,
               directoriesToProcess, treeFetches, frames, contentsFetches >>

vars == << listVars, siteVars, mode, pc, files, codeFiles, batches, currentBatch, currentBatchSize,
           linesAdded, testsChanged, licenseComment, totalFiles,
           analyzed_files, analysis_status, aggVars, tailVars >>

\* The state of a script whose next statement is at position p and that has
\* fetched no file yet. A script that is past its trigger read the number 7
\* from the event, or the names owner and repo from the URL.
Started(p) ==
    /\ mode \in Modes
    /\ pc = p
    /\ files = << >>
    /\ codeFiles = << >>
    /\ batches = << >>
    /\ currentBatch = << >>
    /\ currentBatchSize = 0
    /\ linesAdded = Number(Zero)
    /\ testsChanged = Boolean(FALSE)
    /\ licenseComment = Boolean(FALSE)
    /\ totalFiles = 0
    /\ analyzed_files = << >>
    /\ analysis_status = "started"
    /\ i = 0
    /\ overallAiProb = Number(Zero)
    /\ allPatterns = << >>
    /\ allRationales = << >>
    /\ overallCodeQuality = "Unknown"
    /\ score = ""
    /\ calls = << >>
    /\ started = << >>
    /\ outstanding = 0
    /\ rulesText = ""
    /\ rules = << >>
    /\ r = 0
    /\ failures = << >>
    /\ warnings = << >>
    /\ error = ""
    /\ exitCode = -1
    /\ notifications = << >>
    /\ pending = 0
    /\ allTreeItems = << >>
    /\ page = 1
    /\ hasMoreFiles = TRUE
    /\ allFiles = << >>
    /\ fetched = << >>
    /\ allItems = << >>
    /\ directoriesToProcess = << >>
    /\ treeFetches = << >>
    /\ frames = << >>
    /\ contentsFetches = << >>
    /\ pr = (IF p = "start" \/ mode = "repo" THEN Undefined ELSE Number(Integer(7)))
    /\ owner = (IF p = "start" \/ mode # "repo" THEN "" ELSE "owner")
    /\ repo = (IF p = "start" \/ mode # "repo" THEN "" ELSE "repo")
    /\ reportFileName = ""
    /\ saved = << >>
    /\ issue = "none"

\* The trigger has been read: the file list is fetched next.
Init == Started("batching")

\* ---------------------------------------------------------- batching
\* Faulty variant of PRWouldExceed: the size already in the batch is not counted.
PRWouldExceedAlone(size, f) == f.size > MAX_DIFF_LENGTH

\* if (currentBatchSize + f.patch.length > MAX_DIFF_LENGTH)
PRWouldExceed(size, f) == size + f.size > MAX_DIFF_LENGTH

\* if (currentBatchSize + content.length > MAX_BATCH_SIZE ||
\*     currentBatch.length >= MAX_FILES_PER_BATCH)
RepoWouldExceed(size, count, f) ==
    size + f.size > MAX_BATCH_SIZE \/ count >= MAX_FILES_PER_BATCH

\* Section 4.2: appending the file would breach either limit.
AppWouldExceed(size, count, f) ==
    size + f.size > maxBatchSize \/ count >= maxFilesPerBatch

\* if (currentBatch.length > 0) { batches.push(currentBatch); ... }
Closed(bs, cur, exceed) == IF exceed /\ cur # << >> THEN Append(bs, cur) ELSE bs

\* Faulty variant of Opened: the closed batch is not emptied.
OpenedKeep(cur, exceed) == cur

\* ... currentBatch = [];
Opened(cur, exceed) == IF exceed /\ cur # << >> THEN << >> ELSE cur

\* ... currentBatchSize = 0;
OpenedSize(size, cur, exceed) == IF exceed /\ cur # << >> THEN 0 ELSE size

\* The batch entry and the size added for it; the batch is closed first when
\* the limit check says so and the batch holds a file.
AddToBatch(exceed, path, size) ==
    /\ batches' = Closed(batches, currentBatch, exceed)
    /\ currentBatch' = Append(Opened(currentBatch, exceed),
                              [path |-> path, size |-> size])
    /\ currentBatchSize' = OpenedSize(currentBatchSize, currentBatch, exceed) + size

\* Faulty variant of Statistics: the line count is that of the latest file.
StatisticsLatest(f) ==
    /\ linesAdded' = Number(Integer(f.adds))
    /\ testsChanged' = (IF f.test THEN Boolean(TRUE) ELSE testsChanged)
    /\ licenseComment' = (IF f.lic THEN Boolean(TRUE) ELSE licenseComment)

\* linesAdded += f.additions; if (/test|spec/i.test(f.filename)) testsChanged
\* = true; if (/SPDX-License-Identifier|.../.test(f.patch)) licenseComment = true
Statistics(f) ==
    /\ linesAdded' = Number(Add(linesAdded.number, Integer(f.adds)))
    /\ testsChanged' = (IF f.test THEN Boolean(TRUE) ELSE testsChanged)
    /\ licenseComment' = (IF f.lic THEN Boolean(TRUE) ELSE licenseComment)

\* Pull-request script: one iteration of `for (const f of files)`.
PRFile(f) ==
    /\ mode = "pr" /\ pc = "batching"
    /\ files' = Append(files, f)
    /\ IF ~f.has
       THEN UNCHANGED << batches, currentBatch, currentBatchSize,
                         linesAdded, testsChanged, licenseComment >>
       ELSE /\ AddToBatch(PRWouldExceed(currentBatchSize, f), Len(files) + 1, f.size)
            /\ Statistics(f)
    /\ UNCHANGED << listVars, mode, siteVars, pc, codeFiles, totalFiles, analyzed_files, analysis_status,
                    aggVars, tailVars >>

\* Faulty variant of FetchFailed: no fetch error reaches the catch block.
FetchFailedNever(f) == FALSE

\* The content request of the file throws: catch (err) { ... }
FetchFailed(f) == f.fetch = "throw"

\* Repository analyser: one iteration of `for (const file of codeFiles)`.
RepoFile(f) ==
    /\ mode = "repo" /\ pc = "batching"
    /\ files' = Append(files, f)
    /\ IF FetchFailed(f)
       THEN /\ analyzed_files' = Append(analyzed_files,
                                        [path |-> Len(files) + 1, error |-> TRUE])
            /\ UNCHANGED << batches, currentBatch, currentBatchSize, totalFiles,
                            linesAdded, testsChanged, licenseComment >>
       ELSE IF ~f.has
       THEN UNCHANGED << batches, currentBatch, currentBatchSize, totalFiles,
                         linesAdded, testsChanged, licenseComment, analyzed_files >>
       ELSE /\ totalFiles' = totalFiles + 1
            /\ Statistics(f)
            /\ analyzed_files' = Append(analyzed_files,
                                        [path |-> Len(files) + 1, error |-> FALSE])
            /\ AddToBatch(RepoWouldExceed(currentBatchSize, Len(currentBatch), f),
                          Len(files) + 1, TruncatedLength(f.size))
    /\ UNCHANGED << listVars, mode, siteVars, pc, codeFiles, analysis_status, aggVars, tailVars >>

\* filterCodeFiles keeps the file.
Kept(f) == f.has /\ ~f.excl

\* App analyser: filterCodeFiles and organizeFilesIntoBatches, file by file.
AppFile(f) ==
    /\ mode = "app" /\ pc = "batching"
    /\ files' = Append(files, f)
    /\ IF ~Kept(f)
       THEN UNCHANGED << codeFiles, batches, currentBatch, currentBatchSize,
                         linesAdded, testsChanged, licenseComment >>
       ELSE /\ codeFiles' = Append(codeFiles, Len(files) + 1)
            /\ AddToBatch(AppWouldExceed(currentBatchSize, Len(currentBatch), f),
                          Len(files) + 1, f.size)
            /\ Statistics(f)
    /\ UNCHANGED << listVars, mode, siteVars, pc, totalFiles, analyzed_files, analysis_status, aggVars,
                    tailVars >>

FetchFile(f) == PRFile(f) \/ RepoFile(f) \/ AppFile(f)

\* if (currentBatch.length > 0) batches.push(currentBatch);
LastBatch(bs, cur) == IF cur # << >> THEN Append(bs, cur) ELSE bs

\* reportData.error = 'No code files to analyze after filtering'
NoCodeFiles == "No code files to analyze after filtering"

\* The file list is exhausted: the last batch is added. The app analyser
\* returns with status 'skipped' and this error text when filtering left no
\* file, and the process has nothing left to do.
FinishBatching ==
    /\ pc = "batching"
    /\ batches' = LastBatch(batches, currentBatch)
    /\ IF mode = "app" /\ codeFiles = << >>
       THEN /\ pc' = "exiting"
            /\ analysis_status' = "skipped"
            /\ error' = NoCodeFiles
       ELSE pc' = "analyzing" /\ UNCHANGED << analysis_status, error >>
    /\ UNCHANGED << listVars, mode, siteVars, files, codeFiles, currentBatch, currentBatchSize,
                    linesAdded, testsChanged, licenseComment, totalFiles,
                    analyzed_files, aggVars, rulesText, rules, r, failures, warnings,
                    exitCode, notifications, pending >>

\* The batching loops on lists of up to MaxFiles files.
FetchMany == /\ Len(files) < MaxFiles
             /\ \E f \in FilesOf(mode) : MayFetch(files, f) /\ FetchFile(f)

NextBatch == FetchMany \/ FinishBatching

SpecBatch == Init /\ [][NextBatch]_vars

\* ---------------------------------------------------------- analysis
\* Faulty variant of Denominator: every listed file counts, read or not.
DenominatorListed(m) == Len(files)

\* batches[i].length / files.length | totalFiles | codeFiles.length
Denominator(m) == IF m = "pr" THEN Len(files)
                  ELSE IF m = "repo" THEN totalFiles ELSE Len(codeFiles)

Weight(b) == Divide(Len(b), Denominator(mode))

\* Faulty variant of AddPatterns: every reported pattern is pushed.
AddPatternsAll(all, ps) == all \o ps

\* patterns not yet in the list are pushed, in order
RECURSIVE AddPatterns(_, _)
AddPatterns(all, ps) ==
    IF ps = << >> THEN all
    ELSE AddPatterns(IF \E j \in DOMAIN all : all[j] = Head(ps)
                     THEN all ELSE Append(all, Head(ps)),
                     Tail(ps))

\* updateOverallCodeQuality(batchIndex, batchQuality) is declared in the body of
\* analyzePullRequest after the try block, and `let overallCodeQuality` inside
\* that block: the function does not see the variable. In a module (strict
\* mode) the test of its first line, or for batch 0 the assignment, throws this
\* ReferenceError and the rest of the function never runs.
updateOverallCodeQuality(batchIndex, batchQuality) ==
    [raised |-> TRUE, message |-> "overallCodeQuality is not defined"]

\* The rollup of analyzeCodeBatches; && binds tighter than ||, so the second
\* line of its condition is (average && good) || excellent.
RepoQuality(batchIndex, overall, q) ==
    IF batchIndex = 0 \/ overall = "Unknown" THEN q
    ELSE IF \/ (q = "poor" /\ overall # "poor")
            \/ ((q = "average" /\ overall = "good") \/ overall = "excellent")
            \/ (q = "good" /\ overall = "excellent")
         THEN q ELSE overall

\* `Batch ${i+1} (${n} files): ${rationale}`; the PR script leaves the file
\* count out (files is 0 there).
RationaleLine(m, index, b, rationale) ==
    [batch |-> index + 1, files |-> IF m = "pr" THEN 0 ELSE Len(b), error |-> FALSE,
     text |-> rationale]

\* `Batch ${i+1}: Error during analysis - ${error.message}`
ErrorLine(index, message) ==
    [batch |-> index + 1, files |-> 0, error |-> TRUE, text |-> message]

\* Faulty variant of NextIndex: the loop stays at the batch it has called.
NextIndexSame(index) == index

\* for (let i = 0; i < batches.length; i++)
NextIndex(index) == index + 1

\* The loop body reaches `await openai.chat.completions.create(...)` (through
\* analyzeFileBatch in the app analyser): the request for batch i goes out.
\* The await keeps the body from going on until the call has settled.
BeginCall ==
    /\ pc = "analyzing" /\ i < Len(batches) /\ outstanding = 0
    /\ started' = Append(started, i)
    /\ outstanding' = outstanding + 1
    /\ UNCHANGED << listVars, mode, siteVars, pc, files, codeFiles, batches, currentBatch, currentBatchSize,
                    linesAdded, testsChanged, licenseComment, totalFiles,
                    analyzed_files, analysis_status, i, overallAiProb, allPatterns,
                    allRationales, overallCodeQuality, score, calls, tailVars >>

\* The rest of one iteration of the analysis loop, from the moment the call
\* settles; v is what the call gives. The PR script awaits the call outside
\* any try block: a throw ends the process. The other two catch it and push
\* an error line. In the app analyser the quality update, the last statement
\* of the try block, throws after the probability, the patterns and the
\* rationale line have been recorded, and the same catch pushes an error line.
AnalyzeBatch(v) ==
    /\ pc = "analyzing" /\ i < Len(batches) /\ outstanding = 1
    /\ calls' = Append(calls, v)
    /\ outstanding' = outstanding - 1
    /\ UNCHANGED started
    /\ IF ~v.ok
       THEN IF mode = "pr"
            THEN /\ pc' = "crashed"
                 /\ error' = v.message
                 /\ exitCode' = 1
                 /\ UNCHANGED << i, overallAiProb, allPatterns, allRationales,
                                 overallCodeQuality >>
            ELSE /\ pc' = pc
                 /\ UNCHANGED << error, exitCode >>
                 /\ i' = NextIndex(i)
                 /\ allRationales' = Append(allRationales, ErrorLine(i, v.message))
                 /\ UNCHANGED << overallAiProb, allPatterns, overallCodeQuality >>
       ELSE /\ pc' = pc
            /\ UNCHANGED << error, exitCode >>
            /\ i' = NextIndex(i)
            /\ overallAiProb' =
                   Number(Add(overallAiProb.number,
                              Multiply(v.ai_prob, Weight(batches[i + 1]))))
            /\ LET line == RationaleLine(mode, i, batches[i + 1], v.rationale)
                   update == updateOverallCodeQuality(i, v.code_quality)
               IN  CASE mode = "pr" ->
                          /\ allRationales' = Append(allRationales, line)
                          /\ UNCHANGED << allPatterns, overallCodeQuality >>
                     [] mode = "repo" ->
                          /\ allRationales' = Append(allRationales, line)
                          /\ allPatterns' = AddPatterns(allPatterns, v.patterns_detected)
                          /\ overallCodeQuality' =
                                 RepoQuality(i, overallCodeQuality, v.code_quality)
                     [] mode = "app" ->
                          /\ allPatterns' = AddPatterns(allPatterns, v.patterns_detected)
                          /\ allRationales' =
                                 Append(Append(allRationales, line),
                                        ErrorLine(i, update.message))
                          /\ UNCHANGED overallCodeQuality
    /\ UNCHANGED << listVars, mode, siteVars, files, codeFiles, batches, currentBatch, currentBatchSize,
                    linesAdded, testsChanged, licenseComment, totalFiles,
                    analyzed_files, analysis_status, score, rulesText, rules, r,
                    failures, warnings, notifications, pending >>

\* The loop has run over every batch; the rules are next.
FinishAnalysis ==
    /\ pc = "analyzing" /\ i = Len(batches)
    /\ pc' = "rules"
    /\ score' = Score(mode, overallAiProb.number)
    /\ UNCHANGED << listVars, mode, siteVars, files, codeFiles, batches, currentBatch, currentBatchSize,
                    linesAdded, testsChanged, licenseComment, totalFiles,
                    analyzed_files, analysis_status, i, overallAiProb, allPatterns,
                    allRationales, overallCodeQuality, calls, started, outstanding,
                    tailVars >>

\* Whole runs on lists of up to MaxRunFiles files.
FetchSome == /\ Len(files) < MaxRunFiles
             /\ \E f \in FilesOf(mode) : MayFetch(files, f) /\ FetchFile(f)

Classify == \E v \in RunVerdicts(mode) : AnalyzeBatch(v)

Next == FetchSome \/ FinishBatching \/ BeginCall \/ Classify \/ FinishAnalysis

Spec == Init /\ [][Next]_vars

\* The quality rollup, on lists of up to MaxRollupFiles files and with every
\* quality string; the PR script has no rollup.
InitRollup == Init /\ mode \in {"repo", "app"}

FetchFew == /\ Len(files) < MaxRollupFiles
            /\ \E f \in FilesOf(mode) : MayFetch(files, f) /\ FetchFile(f)

ClassifyQuality == \E v \in RollupVerdicts : AnalyzeBatch(v)

NextRollup == FetchFew \/ FinishBatching \/ BeginCall \/ ClassifyQuality \/ FinishAnalysis

SpecRollup == InitRollup /\ [][NextRollup]_vars

\* The pattern union, on the same lists and with pattern lists that overlap.
ClassifyPatterns == \E v \in PatternVerdicts : AnalyzeBatch(v)

NextPatterns ==
    FetchFew \/ FinishBatching \/ BeginCall \/ ClassifyPatterns \/ FinishAnalysis

SpecPatterns == InitRollup /\ [][NextPatterns]_vars

\* -------------------------------------------------------- rule texts
\* The text of a rules file is a string. A section is written here as its
\* marker and its lines, each ended by a line feed.
RECURSIVE Lines(_)
Lines(ls) == IF ls = << >> THEN "" ELSE Head(ls) \o "\n" \o Lines(Tail(ls))

RuleSection(ls) == "[rule]\n" \o Lines(ls)

ProseSection(title, ls) == "## " \o title \o "\n" \o Lines(ls)

AboveEight == "ctx.ai_prob > 0.8"

\* Sections of the '[rule]' format.
RuleSections ==
    { RuleSection(<< "name = n1", "when = " \o AboveEight, "severity = error",
                     "message = m1" >>),
      RuleSection(<< "", "# when = zzz", "severity = warning", "name=n2", "",
                     "message = m2\r",
                     "when = ctx.lines_added > 2 && !ctx.tests_changed" >>),
      RuleSection(<< "name = n3", "severity = error", "message = m3" >>),
      RuleSection(<< "name = n4", "when = " \o AboveEight, "severity = error",
                     "message =" >>),
      RuleSection(<< "name = n5", "# when = " \o AboveEight, "severity = error",
                     "message = m5" >>),
      RuleSection(<< "name = n6", "  # when = " \o AboveEight, "severity = error",
                     "message = m6" >>),
      RuleSection(<< "name = n7", "when = ai_prob > 0.8", "severity = error",
                     "message = m7" >>),
      RuleSection(<< "name = n8", "when = (linesAdded = 0) || true",
                     "severity = warning", "message = m8" >>),
      RuleSection(<< "name = n9", "when = ctx.ai_prob >= 0.5 || zzz", "severity = error",
                     "message = m9" >>),
      RuleSection(<< "name = n10", "when = ctx.ai_prob zzz", "severity = error",
                     "message = m10" >>),
      RuleSection(<< "name = n11", "when = overallAiProb = 1", "severity = warning",
                     "message = m11" >>) }

\* Sections of the '## ' format.
ProseSections ==
    { ProseSection("High AI Confidence",
                   << "The score is very high.", "Please flag this as an error." >>),
      ProseSection("Missing Tests", << "", "Add tests." >>),
      ProseSection("Excessive Code", << "Split the change." >>),
      ProseSection("High AI Confidence", << >>),
      ProseSection("Grammar Issues", << "#checked by hand" >>),
      ProseSection("Naming", << "Use long names." >>),
      ProseSection("High AI Confidence", << "note = Please flag this as an error." >>),
      ProseSection("Grammar Issues", << "Please flag this as", "  an error ." >>),
      ProseSection("High AI Confidence", << "Please flag this as", "", "an error ." >>),
      ProseSection("Poor Comment Quality", << "Please reflag this as an errors" >>) }

\* Sections of the rules resource of the app analyser.
PolicySections ==
    { RuleSection(<< "name = p1", "when = ai_prob > 80", "severity = error",
                     "message = q1" >>),
      RuleSection(<< "name = p2", "when = lines_added > 2", "severity = warning",
                     "message = q2" >>) }

SectionsOf(m) == IF m = "pr" THEN RuleSections
                 ELSE IF m = "repo" THEN ProseSections ELSE PolicySections

\* ------------------------------------------------------ rule parsing
\* const [key, ...valueParts] = line.split('='); key.trim()
Key(line) == trim(Head(split(line, "=")))

\* valueParts.join('=').trim()
ValueOf(line) == trim(join(Tail(split(line, "=")), "="))

\* rule[key] = value
Set(rule, key, value) == IF key \in DOMAIN rule THEN [rule EXCEPT ![key] = value] ELSE rule

RuleKeys == {"name", "when", "severity", "message"}

\* const rule = {}; a property that is not set reads as undefined, which is
\* falsy like ''.
NoFields == [k \in RuleKeys |-> ""]

\* if (line.trim() && !line.startsWith('#')) rule[key.trim()] = value;
\* the properties other than the four that are read later are left out.
SetField(rule, line) ==
    IF trim(line) = "" \/ startsWith(line, "#") THEN rule
    ELSE Set(rule, trim(Head(split(line, "="))), trim(join(Tail(split(line, "=")), "=")))

RECURSIVE ReadLines(_, _)
ReadLines(rule, ls) ==
    IF ls = << >> THEN rule ELSE ReadLines(SetField(rule, Head(ls)), Tail(ls))

\* if (rule.name && rule.when && rule.severity && rule.message)
HasEveryField(rule) == \A k \in RuleKeys : rule[k] # ""

\* if (rule.name && rule.when && rule.severity && rule.message)
\*     rules.push(rule);
Push(rule) == IF HasEveryField(rule) THEN << rule >> ELSE << >>

\* for (const section of sections), with section.trim().split('\n')
RECURSIVE ReadSections(_)
ReadSections(sections) ==
    IF sections = << >> THEN << >>
    ELSE Push(ReadLines(NoFields, split(trim(Head(sections)), "\n")))
         \o ReadSections(Tail(sections))

\* text.split('[rule]').slice(1)
parseRulesFromText(text) == ReadSections(slice(split(text, "[rule]")))

\* The condition parseHumanReadableRules attaches to a title.
ConditionOf(title) ==
    CASE title = "High AI Confidence" -> "ai_prob > 0.8"
      [] title = "Medium AI Confidence" -> "ai_prob > 0.6 && !license_comment"
      [] title = "Likely AI Generated" -> "ai_prob > 0.4 && !license_comment"
      [] title = "Poor Comment Quality" -> "ai_prob > 0.5"
      [] title = "Grammar Issues" -> "ai_prob > 0.3"
      [] title = "Missing Context" -> "ai_prob > 0.4 && lines_added > 100"
      [] title = "Missing Tests" -> "ai_prob > 0.5 && !tests_changed && lines_added > 50"
      [] title = "Excessive Code" -> "lines_added > 300 && ai_prob > 0.5"
      [] OTHER -> ""

\* lines[0].trim()
Title(lines) == trim(Head(lines))

\* lines.slice(1).join(' ')
Joined(lines) == join(Tail(lines), " ")

\* lines.slice(1).join(' ').trim()
Content(lines) == trim(Joined(lines))

\* The rule with this title and this content.
Titled(title, content) ==
    [name |-> title,
     condition |-> ConditionOf(title),
     severity |-> IF includes(content, "flag this as an error") THEN "error" ELSE "warning",
     message |-> content]

\* The rule of a section with these lines.
TitledRule(lines) == Titled(Title(lines), Content(lines))

\* if (condition) rules.push({ name, condition, severity, message });
PushTitled(rule) == IF rule.condition # "" THEN << rule >> ELSE << >>

\* for (const section of sections), with section.trim().split('\n')
RECURSIVE ReadTitled(_)
ReadTitled(sections) ==
    IF sections = << >> THEN << >>
    ELSE PushTitled(TitledRule(split(trim(Head(sections)), "\n")))
         \o ReadTitled(Tail(sections))

\* text.split('## ').slice(1)
parseHumanReadableRules(text) == ReadTitled(slice(split(text, "## ")))

\* Section 4.5: the rules of the sectioned key/value resource.
PolicyRules(text) == parseRulesFromText(text)

Parsed(m, text) == IF m = "pr" THEN parseRulesFromText(text)
                   ELSE IF m = "repo" THEN parseHumanReadableRules(text)
                   ELSE PolicyRules(text)

\* rule.when | rule.condition
Condition(m, rule) == IF m = "repo" THEN rule.condition ELSE rule.when

\* --------------------------------------------------- rule evaluation
\* const ctx = { ai_prob, lines_added, tests_changed, license_comment }; the
\* app analyser hands reportData over, whose ai_probability is
\* parseFloat(overallAiProb.toFixed(1)).
Context(m) ==
    [ai_prob |-> IF m = "app" THEN Number(parseFloat(score)) ELSE overallAiProb,
     lines_added |-> linesAdded,
     tests_changed |-> testsChanged,
     license_comment |-> licenseComment]

\* The variables a condition can read, with their values. eval(rule.when) |
\* eval(rule.condition) runs the text as code in the scope of the loop body:
\* the block of the loop declares ctx, and around it are the bindings of the
\* module (PR script) or of analyzeRepository and its module. Of the PR
\* script's these hold a number, a boolean or a string. ai_prob, lines_added,
\* tests_changed and license_comment are no variables of either scope.
\* Section 4.5 gives the app analyser's evaluator the four context variables
\* and nothing else.
Variables(m, ctx) ==
    IF m = "pr"
    THEN [n \in {"ctx", "linesAdded", "testsChanged", "licenseComment", "overallAiProb",
                 "currentBatchSize", "MAX_DIFF_LENGTH", "score", "pr"} |->
             CASE n = "ctx" -> Object
               [] n = "linesAdded" -> linesAdded
               [] n = "testsChanged" -> testsChanged
               [] n = "licenseComment" -> licenseComment
               [] n = "overallAiProb" -> overallAiProb
               [] n = "currentBatchSize" -> Number(Integer(currentBatchSize))
               [] n = "MAX_DIFF_LENGTH" -> Number(Integer(MAX_DIFF_LENGTH))
               [] n = "score" -> String(score)
               [] n = "pr" -> pr]
    ELSE IF m = "repo" THEN [n \in {"ctx"} |-> Object]
    ELSE ctx

\* The variables declared with const.
Constants(m) ==
    IF m = "pr" THEN {"ctx", "MAX_DIFF_LENGTH", "score", "pr"}
    ELSE IF m = "repo" THEN {"ctx"} ELSE {}

\* The variables of the scope whose declaration runs after the loop, or is
\* the one eval is called in: `const triggered = eval(...)`, `const body`,
\* `const reportFileName`, `const issueUrl`.
Uninitialized(m) ==
    IF m = "pr" THEN {"triggered", "body"}
    ELSE IF m = "repo" THEN {"triggered", "reportFileName", "issueUrl"} ELSE {}

Scope(m, ctx) ==
    [ctx |-> ctx, vars |-> Variables(m, ctx), consts |-> Constants(m),
     dead |-> Uninitialized(m)]

\* The other bindings of the two scopes: they hold arrays, objects, functions
\* and texts that are not modelled.
Untracked ==
    {"Octokit", "OpenAI", "fs", "https", "readline", "path", "fileURLToPath",
     "createRequire", "octokit", "openai", "model", "event", "owner", "repo", "files",
     "diffMarkdown", "batches", "currentBatch", "allRationales", "overallRationale",
     "rulesText", "rules", "rule", "failures", "warnings", "getAllPRFiles",
     "parseRulesFromText", "__filename", "__dirname", "require", "rl", "sendToSlack",
     "getAllTreeItems", "getAllItemsUsingContentsAPI", "analyzeCodeBatches",
     "parseHumanReadableRules", "createAndCloseRepoIssue", "analyzeRepository",
     "reportData", "repoUrl", "urlMatch", "repoData", "allTreeItems", "codeExtensions",
     "codeFiles", "filesToAnalyze", "analysisResults", "githubToken", "openaiApiKey",
     "openaiModel", "slackWebhookUrl"}

\* The words of the language that are no names of variables.
Reserved ==
    {"await", "break", "case", "catch", "class", "const", "continue", "debugger",
     "default", "delete", "do", "else", "enum", "export", "extends", "finally", "for",
     "function", "if", "import", "in", "instanceof", "new", "null", "return", "super",
     "switch", "this", "throw", "try", "typeof", "var", "void", "while", "with", "yield",
     "let", "static", "implements", "interface", "package", "private", "protected",
     "public", "async", "of", "get", "set", "eval", "arguments"}

\* The names the global object gives a value.
Global ==
    {"globalThis", "global", "undefined", "NaN", "Infinity", "isFinite", "isNaN",
     "parseFloat", "parseInt", "decodeURI", "decodeURIComponent", "encodeURI",
     "encodeURIComponent", "escape", "unescape", "Array", "ArrayBuffer", "Atomics",
     "BigInt", "BigInt64Array", "BigUint64Array", "Boolean", "DataView", "Date", "Error",
     "AggregateError", "EvalError", "RangeError", "ReferenceError", "SyntaxError",
     "TypeError", "URIError", "FinalizationRegistry", "Float32Array", "Float64Array",
     "Function", "Int8Array", "Int16Array", "Int32Array", "Map", "Number", "Object",
     "Promise", "Proxy", "RegExp", "Set", "SharedArrayBuffer", "String", "Symbol",
     "Uint8Array", "Uint8ClampedArray", "Uint16Array", "Uint32Array", "WeakMap",
     "WeakRef", "WeakSet", "JSON", "Math", "Reflect", "Intl", "WebAssembly", "Iterator",
     "console", "process", "Buffer", "setTimeout", "setInterval", "setImmediate",
     "clearTimeout", "clearInterval", "clearImmediate", "queueMicrotask",
     "structuredClone", "URL", "URLSearchParams", "TextEncoder", "TextDecoder",
     "TextDecoderStream", "TextEncoderStream", "AbortController", "AbortSignal", "Event",
     "EventTarget", "EventSource", "CustomEvent", "MessageChannel", "MessagePort",
     "MessageEvent", "BroadcastChannel", "performance", "Performance",
     "PerformanceEntry", "PerformanceMark", "PerformanceMeasure", "PerformanceObserver",
     "PerformanceObserverEntryList", "PerformanceResourceTiming", "fetch", "Headers",
     "Request", "Response", "FormData", "Blob", "File", "crypto", "Crypto", "CryptoKey",
     "SubtleCrypto", "atob", "btoa", "navigator", "Navigator", "WebSocket",
     "ReadableStream", "ReadableStreamDefaultReader", "ReadableStreamBYOBReader",
     "ReadableStreamBYOBRequest", "ReadableByteStreamController",
     "ReadableStreamDefaultController", "TransformStream",
     "TransformStreamDefaultController", "WritableStream",
     "WritableStreamDefaultWriter", "WritableStreamDefaultController",
     "ByteLengthQueuingStrategy", "CountQueuingStrategy", "CompressionStream",
     "DecompressionStream", "DOMException", "SuppressedError", "DisposableStack",
     "AsyncDisposableStack", "Float16Array", "CloseEvent", "Storage", "localStorage",
     "sessionStorage"}

\* The names every object, number and boolean inherits a value for; as names
\* of variables the global object inherits them too.
Inherited ==
    {"constructor", "hasOwnProperty", "isPrototypeOf", "propertyIsEnumerable",
     "toLocaleString", "toString", "valueOf", "toFixed", "toExponential", "toPrecision",
     "__proto__", "__defineGetter__", "__defineSetter__", "__lookupGetter__",
     "__lookupSetter__"}

\* ------------------------------------------------------------ tokens
Word(s) == [kind |-> "word", text |-> s]

Numeral(s) == [kind |-> "numeral", text |-> s]

Mark(s) == [kind |-> "mark", text |-> s]

\* A piece of text that is none of the three.
Other(s) == [kind |-> "other", text |-> s]

\* The operators and punctuation of the conditions read here.
Marks == {"===", "!==", "==", "!=", ">=", "<=", "&&", "||", ">", "<", "!", "(", ")",
          ".", "="}

\* The punctuators of the language that begin like one of them.
OtherMarks == {">>>=", ">>>", ">>=", ">>", "<<=", "<<", "&&=", "||=", "=>", "..."}

\* The punctuator of n characters s begins with, "" when there is none.
MarkOf(s, n) ==
    IF Len(s) >= n /\ SubSeq(s, 1, n) \in Marks \cup OtherMarks THEN SubSeq(s, 1, n) ELSE ""

\* The longest punctuator s begins with.
LongestMark(s) ==
    IF MarkOf(s, 4) # "" THEN MarkOf(s, 4)
    ELSE IF MarkOf(s, 3) # "" THEN MarkOf(s, 3)
    ELSE IF MarkOf(s, 2) # "" THEN MarkOf(s, 2) ELSE MarkOf(s, 1)

IdentifierStarts == Characters(LowerCase \o UpperCase \o "_$")

IdentifierStart(c) == c \in IdentifierStarts

IdentifierPart(c) == IdentifierStart(c) \/ IsDigit(c)

\* The length of the name s begins with.
NameRun(s) == Lowest({j \in 1..(Len(s) + 1) : ~IdentifierPart(CharAt(s, j))}) - 1

\* s begins with a decimal literal of the form read here: digits without a
\* needless leading zero, and after a point one to four digits more; no
\* name, digit or point follows it.
BeginsWithNumeral(s) ==
    /\ IsDigit(CharAt(s, 1))
    /\ CharAt(s, 1) = "0" => DigitRun(s) = 1
    /\ DigitRun(s) + DecimalPlaces(s) <= 9 /\ DecimalPlaces(s) <= 4
    /\ NumeralLength(s) < Len(s) =>
           /\ ~IdentifierPart(CharAt(s, NumeralLength(s) + 1))
           /\ CharAt(s, NumeralLength(s) + 1) # "."

\* The first token of s, which begins with no blank and is not empty. A point
\* before a digit begins a numeral of another form.
FirstToken(s) ==
    IF IdentifierStart(CharAt(s, 1)) THEN Word(SubSeq(s, 1, NameRun(s)))
    ELSE IF BeginsWithNumeral(s) THEN Numeral(SubSeq(s, 1, NumeralLength(s)))
    ELSE IF CharAt(s, 1) = "." /\ IsDigit(CharAt(s, 2)) THEN Other(".")
    ELSE IF LongestMark(s) \in Marks THEN Mark(LongestMark(s))
    ELSE IF LongestMark(s) # "" THEN Other(LongestMark(s))
    ELSE Other(CharAt(s, 1))

\* s without the blanks and tabs it begins with.
Unblanked(s) == From(s, Lowest({j \in 1..(Len(s) + 1) : CharAt(s, j) \notin {" ", "\t"}}))

\* The token, and the tokens of what follows it in s.
RECURSIVE Tokens(_)
Following(s, token) == << token >> \o Tokens(From(s, Len(token.text) + 1))

\* The tokens of a text; blanks and tabs separate them.
Tokens(s) ==
    IF Unblanked(s) = "" THEN << >> ELSE Following(Unblanked(s), FirstToken(Unblanked(s)))

EndOfInput == Mark("")

At(ts, p) == IF p \in DOMAIN ts THEN ts[p] ELSE EndOfInput

Is(t, mark) == t.kind = "mark" /\ t.text = mark

IsLiteral(t) == t.kind = "word" /\ t.text \in {"true", "false"}

IsName(t) == t.kind = "word" /\ ~IsLiteral(t)

\* The names of CommonJS: when reading one ends the script, the module
\* loader writes a message of its own.
Loader == {"module", "exports"}

\* The words that the language, the global object, a prototype, an untracked
\* binding or the module loader gives a meaning.
Special == Reserved \cup Global \cup Inherited \cup Untracked \cup Loader

\* The texts whose evaluation is modelled: they are made of the tokens above,
\* use no such word, and call nothing.
Modelled(ts) ==
    /\ \A j \in DOMAIN ts :
           /\ ts[j].kind # "other"
           /\ ts[j].kind = "word" => ts[j].text \notin Special
    /\ \A j \in 2..Len(ts) :
           Is(ts[j], "(") => ts[j - 1].kind = "mark" /\ ~Is(ts[j - 1], ")")

\* ------------------------------------------------------------ values
\* ToBoolean
Truthy(v) ==
    CASE v.type = "number" -> v.number # Zero
      [] v.type = "boolean" -> v.boolean
      [] v.type = "string" -> v.string # ""
      [] v.type = "undefined" -> FALSE
      [] v.type = "object" -> TRUE

\* ToPrimitive: ctx becomes the string its toString gives.
ToPrimitive(v) == IF v.type = "object" THEN String("[object Object]") ELSE v

\* The string is empty or a decimal literal.
IsNumeral(s) == s = "" \/ (BeginsWithNumeral(s) /\ NumeralLength(s) = Len(s))

\* ToNumber gives a number for these, and NaN for undefined and for the string
\* of ctx. The strings there are here are that one and those toFixed gives.
Numeric(v) ==
    CASE v.type \in {"number", "boolean"} -> TRUE
      [] v.type = "undefined" -> FALSE
      [] v.type = "string" /\ IsNumeral(v.string) -> TRUE
      [] v.type = "string" /\ v.string = "[object Object]" -> FALSE

ToNumber(v) ==
    IF v.type = "number" THEN v.number
    ELSE IF v.type = "string" THEN (IF v.string = "" THEN Zero ELSE NumeralValue(v.string))
    ELSE IF v.boolean THEN One ELSE Zero

\* x > y, x < y, x >= y, x <= y for two numbers: x >= y is not y > x
Ordered(op, x, y) ==
    Above(IF op \in {">", "<="} THEN x ELSE y, IF op \in {">", "<="} THEN y ELSE x)
        = (op \in {">", "<"})

\* The printable characters in the order of their codes: those from 32 to
\* 95, and those from 97 on.
Ascii == " !\"#$%&'()*+,-./0123456789:;<=>?@ABCDEFGHIJKLMNOPQRSTUVWXYZ[\\]^_"

\* c.charCodeAt(0)
Code(c) ==
    IF includes(Ascii, c) THEN indexOf(Ascii, c) + 31
    ELSE indexOf(LowerCase \o "{|}~", c) + 96

\* s comes before t in the order of the character codes.
RECURSIVE Precedes(_, _)
Precedes(s, t) ==
    IF t = "" THEN FALSE
    ELSE IF s = "" THEN TRUE
    ELSE IF CharAt(s, 1) = CharAt(t, 1) THEN Precedes(From(s, 2), From(t, 2))
    ELSE Code(CharAt(s, 1)) < Code(CharAt(t, 1))

\* x > y, x < y, x >= y, x <= y for two strings
StringOrdered(op, s, t) ==
    Precedes(IF op \in {">", "<="} THEN t ELSE s, IF op \in {">", "<="} THEN s ELSE t)
        = (op \in {">", "<"})

\* a > b, a < b, a >= b, a <= b for two primitive values: two strings are
\* compared as strings, other values as numbers, and a comparison with NaN is
\* false.
Related(op, a, b) ==
    IF a.type = "string" /\ b.type = "string" THEN StringOrdered(op, a.string, b.string)
    ELSE Numeric(a) /\ Numeric(b) /\ Ordered(op, ToNumber(a), ToNumber(b))

Compare(op, a, b) == Related(op, ToPrimitive(a), ToPrimitive(b))

\* a === b; ctx is the only object
StrictEquals(a, b) ==
    /\ a.type = b.type
    /\ a.type = "number" => a.number = b.number
    /\ a.type = "boolean" => a.boolean = b.boolean
    /\ a.type = "string" => a.string = b.string

\* a == b for two primitive values of different types
Coerced(a, b) ==
    IF a.type = "string" /\ b.type = "string" THEN a.string = b.string
    ELSE Numeric(a) /\ Numeric(b) /\ ToNumber(a) = ToNumber(b)

\* a == b
LooseEquals(a, b) ==
    IF a.type = b.type THEN StrictEquals(a, b)
    ELSE IF "undefined" \in {a.type, b.type} THEN FALSE
    ELSE Coerced(ToPrimitive(a), ToPrimitive(b))

\* --------------------------------------------------------- evaluator
\* What an expression refers to: nothing, a variable, or a property of a
\* value.
NoReference == [kind |-> "none", name |-> "", base |-> Undefined]

Variable(name) == [kind |-> "variable", name |-> name, base |-> Undefined]

PropertyOf(base, name) == [kind |-> "property", name |-> name, base |-> base]

\* What reading a part of the text gives: the place of the next token, the
\* value or what the part refers to, the scope afterwards, and the message of
\* the error raised ("" when none was).
Read(p, v, scope) ==
    [pos |-> p, value |-> v, ref |-> NoReference, scope |-> scope, error |-> ""]

Refer(p, ref, scope) ==
    [pos |-> p, value |-> Undefined, ref |-> ref, scope |-> scope, error |-> ""]

Stopped(p, scope, message) ==
    [pos |-> p, value |-> Undefined, ref |-> NoReference, scope |-> scope,
     error |-> message]

\* What stands for the outcome of a step that is not modelled: reading a
\* property of a string, writing a property of a number, a boolean or a
\* string, keeping ctx in a variable, and writing anything but a whole number
\* to currentBatchSize.
Beyond == "(not modelled)"

\* The message of the SyntaxError for a token that cannot follow.
Unexpected(t) ==
    IF t = EndOfInput THEN "Unexpected end of input"
    ELSE IF t.kind = "numeral" THEN "Unexpected number"
    ELSE IF IsName(t) THEN "Unexpected identifier '" \o t.text \o "'"
    ELSE "Unexpected token '" \o t.text \o "'"

\* The value of the property `name` of v: ctx has the properties it was given
\* and those written to it; a number or a boolean has none of its own.
Property(v, name, scope) ==
    IF v.type = "object" /\ name \in DOMAIN scope.ctx THEN scope.ctx[name] ELSE Undefined

\* GetValue of a variable
VariableValue(x) ==
    IF x.ref.name \in x.scope.dead
    THEN Stopped(x.pos, x.scope,
                 "Cannot access '" \o x.ref.name \o "' before initialization")
    ELSE IF x.ref.name \in DOMAIN x.scope.vars
    THEN Read(x.pos, x.scope.vars[x.ref.name], x.scope)
    ELSE Stopped(x.pos, x.scope, x.ref.name \o " is not defined")

\* GetValue of a property
PropertyValue(x) ==
    IF x.ref.base.type = "undefined"
    THEN Stopped(x.pos, x.scope,
                 "Cannot read properties of undefined (reading '" \o x.ref.name \o "')")
    ELSE IF x.ref.base.type = "string" THEN Stopped(x.pos, x.scope, Beyond)
    ELSE Read(x.pos, Property(x.ref.base, x.ref.name, x.scope), x.scope)

\* GetValue: the value of what was read. With live = FALSE the text is parsed
\* and nothing is evaluated.
Got(x, live) ==
    IF x.error # "" \/ x.ref.kind = "none" THEN x
    ELSE IF ~live THEN Read(x.pos, Undefined, x.scope)
    ELSE IF x.ref.kind = "variable" THEN VariableValue(x)
    ELSE PropertyValue(x)

\* The expression grammar, by recursive descent. With live = FALSE the text is
\* parsed and nothing is evaluated: the operand a && or || skips, and the
\* parse of the whole text that comes before its evaluation.
RECURSIVE Assignment(_, _, _, _), LogicalOr(_, _, _, _), OrTail(_, _, _, _),
          OrElse(_, _, _), LogicalAnd(_, _, _, _), AndTail(_, _, _, _),
          AndThen(_, _, _), Equality(_, _, _, _), EqualityTail(_, _, _, _),
          Relational(_, _, _, _), RelationalTail(_, _, _, _), Unary(_, _, _, _),
          Member(_, _, _, _), MemberTail(_, _, _, _), Primary(_, _, _, _)

\* ( expression ): it refers to what the expression refers to
Parenthesized(ts, inner, scope) ==
    IF inner.error # "" THEN inner
    ELSE IF Is(At(ts, inner.pos), ")") THEN [inner EXCEPT !.pos = @ + 1]
    ELSE Stopped(inner.pos, scope, Unexpected(At(ts, inner.pos)))

\* literal | name | ( expression )
Primary(ts, p, scope, live) ==
    IF At(ts, p).kind = "numeral" THEN Read(p + 1, Number(NumeralValue(At(ts, p).text)), scope)
    ELSE IF IsLiteral(At(ts, p)) THEN Read(p + 1, Boolean(At(ts, p).text = "true"), scope)
    ELSE IF IsName(At(ts, p)) THEN Refer(p + 1, Variable(At(ts, p).text), scope)
    ELSE IF Is(At(ts, p), "(") THEN Parenthesized(ts, Assignment(ts, p + 1, scope, live), scope)
    ELSE Stopped(p, scope, Unexpected(At(ts, p)))

\* base . name
Selected(base, name) ==
    IF base.error # "" THEN base
    ELSE Refer(base.pos + 2, PropertyOf(base.value, name), base.scope)

\* base . name . name ...
MemberTail(ts, base, scope, live) ==
    IF base.error # "" \/ ~Is(At(ts, base.pos), ".") THEN base
    ELSE IF At(ts, base.pos + 1).kind # "word"
    THEN Stopped(base.pos + 1, scope, Unexpected(At(ts, base.pos + 1)))
    ELSE MemberTail(ts, Selected(Got(base, live), At(ts, base.pos + 1).text), scope, live)

Member(ts, p, scope, live) == MemberTail(ts, Primary(ts, p, scope, live), scope, live)

\* ! operand, for the operand read
Negated(x) == IF x.error # "" THEN x ELSE [x EXCEPT !.value = Boolean(~Truthy(@))]

Unary(ts, p, scope, live) ==
    IF Is(At(ts, p), "!") THEN Negated(Got(Unary(ts, p + 1, scope, live), live))
    ELSE Member(ts, p, scope, live)

\* left op right, for the operand read after a relational operator
Compared(op, left, right) ==
    IF left.error # "" THEN left
    ELSE IF right.error # "" THEN right
    ELSE [right EXCEPT !.value = Boolean(Compare(op, left.value, @))]

RelationalTail(ts, left, scope, live) ==
    IF left.error # "" \/ ~(At(ts, left.pos).kind = "mark"
                             /\ At(ts, left.pos).text \in {">", "<", ">=", "<="})
    THEN left
    ELSE RelationalTail(ts,
                        Compared(At(ts, left.pos).text, Got(left, live),
                                 Got(Unary(ts, left.pos + 1, left.scope, live), live)),
                        scope, live)

Relational(ts, p, scope, live) == RelationalTail(ts, Unary(ts, p, scope, live), scope, live)

\* a == b, a != b, a === b, a !== b
Equals(op, a, b) ==
    (IF op \in {"==", "!="} THEN LooseEquals(a, b) ELSE StrictEquals(a, b))
        = (op \in {"==", "==="})

\* left op right, for the operand read after an equality operator
Equated(op, left, right) ==
    IF left.error # "" THEN left
    ELSE IF right.error # "" THEN right
    ELSE [right EXCEPT !.value = Boolean(Equals(op, left.value, @))]

EqualityTail(ts, left, scope, live) ==
    IF left.error # "" \/ ~(At(ts, left.pos).kind = "mark"
                             /\ At(ts, left.pos).text \in {"==", "!=", "===", "!=="})
    THEN left
    ELSE EqualityTail(ts,
                      Equated(At(ts, left.pos).text, Got(left, live),
                              Got(Relational(ts, left.pos + 1, left.scope, live), live)),
                      scope, live)

Equality(ts, p, scope, live) ==
    EqualityTail(ts, Relational(ts, p, scope, live), scope, live)

\* The value of left && right or left || right: the right operand's when it
\* was evaluated (go), the left one's when it was skipped.
Chosen(left, right, go) ==
    IF right.error # "" THEN right
    ELSE IF go THEN right ELSE [left EXCEPT !.pos = right.pos]

\* left && right: the right operand is evaluated when the left one is truthy
AndThen(ts, left, live) ==
    IF left.error # "" THEN left
    ELSE Chosen(left,
                Got(Equality(ts, left.pos + 1, left.scope, live /\ Truthy(left.value)),
                    live /\ Truthy(left.value)),
                live /\ Truthy(left.value))

AndTail(ts, left, scope, live) ==
    IF left.error # "" \/ ~Is(At(ts, left.pos), "&&") THEN left
    ELSE AndTail(ts, AndThen(ts, Got(left, live), live), scope, live)

LogicalAnd(ts, p, scope, live) == AndTail(ts, Equality(ts, p, scope, live), scope, live)

\* left || right: the right operand is evaluated when the left one is falsy
OrElse(ts, left, live) ==
    IF left.error # "" THEN left
    ELSE Chosen(left,
                Got(LogicalAnd(ts, left.pos + 1, left.scope, live /\ ~Truthy(left.value)),
                    live /\ ~Truthy(left.value)),
                live /\ ~Truthy(left.value))

OrTail(ts, left, scope, live) ==
    IF left.error # "" \/ ~Is(At(ts, left.pos), "||") THEN left
    ELSE OrTail(ts, OrElse(ts, Got(left, live), live), scope, live)

LogicalOr(ts, p, scope, live) == OrTail(ts, LogicalAnd(ts, p, scope, live), scope, live)

\* The Number is a whole number below 2^31.
IsWhole(x) == x = Zero \/ (x.e \in -52..-22 /\ Integer(Whole(x)) = x)

\* The variable can hold the value: ctx is a new object in every iteration,
\* and currentBatchSize is a whole number here.
Holds(name, v) ==
    /\ v.type # "object"
    /\ name = "currentBatchSize" => v.type = "number" /\ IsWhole(v.number)

\* PutValue to a variable: in a module (strict mode) writing a name that is
\* not declared raises a ReferenceError.
WriteVariable(name, right) ==
    IF name \in right.scope.dead
    THEN Stopped(right.pos, right.scope,
                 "Cannot access '" \o name \o "' before initialization")
    ELSE IF name \notin DOMAIN right.scope.vars
    THEN Stopped(right.pos, right.scope, name \o " is not defined")
    ELSE IF name \in right.scope.consts
    THEN Stopped(right.pos, right.scope, "Assignment to constant variable.")
    ELSE IF ~Holds(name, right.value) THEN Stopped(right.pos, right.scope, Beyond)
    ELSE [right EXCEPT !.scope.vars[name] = right.value]

\* PutValue to a property
WriteProperty(base, name, right) ==
    IF base.type = "undefined"
    THEN Stopped(right.pos, right.scope,
                 "Cannot set properties of undefined (setting '" \o name \o "')")
    ELSE IF base.type # "object" THEN Stopped(right.pos, right.scope, Beyond)
    ELSE [right EXCEPT
             !.scope.ctx = [n \in DOMAIN @ \cup {name} |->
                               IF n = name THEN right.value ELSE @[n]]]

\* target = right: the target was read first, then the right side was
\* evaluated, then the value is written.
Put(ref, right, live) ==
    IF right.error # "" \/ ~live THEN right
    ELSE IF ref.kind = "variable" THEN WriteVariable(ref.name, right)
    ELSE WriteProperty(ref.base, ref.name, right)

\* left = expression | left. What stands before '=' has to be a name or a
\* property, in parentheses or not.
Assigned(ts, left, scope, live) ==
    IF left.error # "" \/ ~Is(At(ts, left.pos), "=") THEN left
    ELSE IF left.ref.kind = "none"
    THEN Stopped(left.pos, scope, "Invalid left-hand side in assignment")
    ELSE Put(left.ref, Got(Assignment(ts, left.pos + 1, left.scope, live), live), live)

Assignment(ts, p, scope, live) == Assigned(ts, LogicalOr(ts, p, scope, live), scope, live)

\* The text as a whole, after it was parsed: what is left over after an
\* expression makes it no expression.
Checked(ts, scope, parsed, run) ==
    IF ts = << >> THEN Read(1, Undefined, scope)
    ELSE IF parsed.error # "" THEN parsed
    ELSE IF parsed.pos <= Len(ts)
    THEN Stopped(parsed.pos, scope, Unexpected(ts[parsed.pos]))
    ELSE run

\* The whole text: it is parsed first, and a text that is no expression
\* raises a SyntaxError before any of it runs.
Run(ts, scope) ==
    Checked(ts, scope, Assignment(ts, 1, scope, FALSE),
            Got(Assignment(ts, 1, scope, TRUE), TRUE))

\* What evaluating a condition gives the loop body: an error raised, or
\* whether the value is truthy, and the variables afterwards.
Outcome(result) ==
    [threw |-> result.error # "", message |-> result.error,
     value |-> result.error = "" /\ Truthy(result.value), vars |-> result.scope.vars]

\* The outcome of an evaluation whose every step is modelled.
Defined(result) == CASE result.error # Beyond -> Outcome(result)

\* eval(rule.when) | eval(rule.condition)
Eval(m, cond, ctx) ==
    CASE Modelled(Tokens(cond)) -> Defined(Run(Tokens(cond), Scope(m, ctx)))

\* The tokens of the expression grammar of section 4.5.
InGrammar(t) ==
    \/ t.kind = "numeral"
    \/ t.kind = "word" /\ t.text \in {"ai_prob", "lines_added", "tests_changed",
                                       "license_comment", "true", "false"}
    \/ t.kind = "mark" /\ t.text \in {">", "<", ">=", "<=", "==", "!=", "===", "!==",
                                       "&&", "||", "!", "(", ")"}

\* What the restricted evaluator gives for a result: a text it rejects or
\* that raises an error triggers nothing.
Accepted(result, ctx) ==
    IF result.error = "" THEN Outcome(result)
    ELSE [threw |-> FALSE, message |-> "", value |-> FALSE, vars |-> ctx]

\* Section 4.5: the restricted evaluator of the app analyser; a text outside
\* the grammar is rejected.
RestrictedEval(cond, ctx) ==
    Accepted(IF \A j \in DOMAIN Tokens(cond) : InGrammar(Tokens(cond)[j])
             THEN Run(Tokens(cond), Scope("app", ctx))
             ELSE Stopped(1, Scope("app", ctx), "rejected"),
             ctx)

\* ------------------------------------------ from rules to the exit
\* An error nothing catches ends the PR script with exit code 1.
Crash(message) ==
    /\ pc' = "crashed"
    /\ error' = message
    /\ exitCode' = 1
    /\ UNCHANGED analysis_status

\* catch (error) { reportData.analysis_status = 'failed';
\*                 reportData.error = error.message; } and the notification
\* that follows it (in `finally`, or in the catch block of the app analyser).
Fail(message) ==
    /\ pc' = "notifying"
    /\ analysis_status' = "failed"
    /\ error' = message
    /\ UNCHANGED exitCode

\* ------------------------------------------------ the event payload
\* JSON.parse reads its text as tokens: a punctuator, a string, a number, a
\* literal, or a character that begins none of them. `length` is what the
\* token takes of the text, `culprit` the character at which a word that
\* begins like a literal leaves it ('' when the text ends there).
JsonToken(kind, text, length, culprit) ==
    [kind |-> kind, text |-> text, length |-> length, culprit |-> culprit]

\* A piece of text whose reading is not modelled: a string with an escape or
\* without its end, a number other than a whole one, a character that is
\* not printable.
Unread(s) == JsonToken("beyond", "", Len(s), "")

JsonBlanks == {" ", "\t", "\n", "\r"}

JsonMarks == {"{", "}", "[", "]", ":", ","}

\* The characters a string is read with here.
Plain == Characters(Ascii \o LowerCase \o "{|}~") \ {"\"", "\\"}

\* The place of the quote that ends the string s begins with, 0 for none.
Closing(s) == Lowest({j \in 2..Len(s) : CharAt(s, j) = "\""})

StringToken(s) ==
    IF Closing(s) = 0 \/ \E j \in 2..(Closing(s) - 1) : CharAt(s, j) \notin Plain
    THEN Unread(s)
    ELSE JsonToken("string", SubSeq(s, 2, Closing(s) - 1), Closing(s), "")

\* A whole number of up to nine digits, without sign, fraction or exponent.
NumberToken(s) ==
    IF /\ IsDigit(CharAt(s, 1))
       /\ CharAt(s, 1) = "0" => DigitRun(s) = 1
       /\ DigitRun(s) <= 9
       /\ CharAt(s, DigitRun(s) + 1) \notin {".", "e", "E"}
    THEN JsonToken("number", SubSeq(s, 1, DigitRun(s)), DigitRun(s), "")
    ELSE Unread(s)

LiteralOf(c) == IF c = "t" THEN "true" ELSE IF c = "f" THEN "false" ELSE "null"

\* The first place where s is not the literal.
Departure(s, literal) == Lowest({j \in 2..Len(literal) : CharAt(s, j) # CharAt(literal, j)})

\* true, false or null, or a word that begins like one of them.
LiteralToken(s, literal) ==
    IF startsWith(s, literal) THEN JsonToken("literal", literal, Len(literal), "")
    ELSE JsonToken("misspelt", CharAt(s, 1), Len(s), CharAt(s, Departure(s, literal)))

\* The first token of s, which begins with no white space and is not empty.
JsonFirst(s) ==
    IF CharAt(s, 1) \in JsonMarks THEN JsonToken("mark", CharAt(s, 1), 1, "")
    ELSE IF CharAt(s, 1) = "\"" THEN StringToken(s)
    ELSE IF IsDigit(CharAt(s, 1)) \/ CharAt(s, 1) = "-" THEN NumberToken(s)
    ELSE IF CharAt(s, 1) \in {"t", "f", "n"} THEN LiteralToken(s, LiteralOf(CharAt(s, 1)))
    ELSE IF CharAt(s, 1) \in Plain THEN JsonToken("illegal", CharAt(s, 1), 1, "")
    ELSE Unread(s)

\* s without the white space it begins with.
Unspaced(s) == From(s, Lowest({j \in 1..(Len(s) + 1) : CharAt(s, j) \notin JsonBlanks}))

RECURSIVE JsonTokens(_)
JsonFollowing(s, token) == << token >> \o JsonTokens(From(s, token.length + 1))

JsonTokens(s) ==
    IF Unspaced(s) = "" THEN << >> ELSE JsonFollowing(Unspaced(s), JsonFirst(Unspaced(s)))

JsonAt(ts, p) == IF p \in DOMAIN ts THEN ts[p] ELSE JsonToken("end", "", 0, "")

JsonIs(t, mark) == t.kind = "mark" /\ t.text = mark

\* A value of the payload: null, a boolean, a number or a string with its
\* text, an array with its elements, or an object with its members in the
\* order of the text; `undefined` is what reading a missing property gives.
Json(type, text, members) == [type |-> type, text |-> text, members |-> members]

JsonUndefined == Json("undefined", "", << >>)

\* The value a token is.
Scalar(token) ==
    Json(IF token.kind # "literal" THEN token.kind
         ELSE IF token.text = "null" THEN "null" ELSE "boolean",
         token.text, << >>)

\* What reading a value gave: the value and the place of the token after
\* it, or the place of the token that cannot be where it is, with what the
\* parser wanted there.
ReadAs(value, next) == [good |-> TRUE, value |-> value, next |-> next, wanted |-> ""]

Stuck(place, wanted) ==
    [good |-> FALSE, value |-> JsonUndefined, next |-> place, wanted |-> wanted]

RECURSIVE JsonValue(_, _), JsonMembers(_, _, _), JsonElements(_, _, _)

\* After the value of a member: a comma and the next member, or the end of
\* the object.
AfterMember(ts, read, key, members) ==
    IF ~read.good THEN read
    ELSE IF JsonIs(JsonAt(ts, read.next), ",")
    THEN JsonMembers(ts, read.next + 1, Append(members, [key |-> key, value |-> read.value]))
    ELSE IF JsonIs(JsonAt(ts, read.next), "}")
    THEN ReadAs(Json("object", "", Append(members, [key |-> key, value |-> read.value])),
              read.next + 1)
    ELSE Stuck(read.next, "mark")

\* A member: a string, a colon and a value.
JsonMembers(ts, p, members) ==
    IF JsonAt(ts, p).kind # "string" THEN Stuck(p, "name")
    ELSE IF ~JsonIs(JsonAt(ts, p + 1), ":") THEN Stuck(p + 1, "mark")
    ELSE AfterMember(ts, JsonValue(ts, p + 2), JsonAt(ts, p).text, members)

\* After an element: a comma and the next element, or the end of the array.
AfterElement(ts, read, elements) ==
    IF ~read.good THEN read
    ELSE IF JsonIs(JsonAt(ts, read.next), ",")
    THEN JsonElements(ts, read.next + 1, Append(elements, read.value))
    ELSE IF JsonIs(JsonAt(ts, read.next), "]")
    THEN ReadAs(Json("array", "", Append(elements, read.value)), read.next + 1)
    ELSE Stuck(read.next, "mark")

JsonElements(ts, p, elements) == AfterElement(ts, JsonValue(ts, p), elements)

JsonValue(ts, p) ==
    IF JsonIs(JsonAt(ts, p), "{")
    THEN IF JsonIs(JsonAt(ts, p + 1), "}") THEN ReadAs(Json("object", "", << >>), p + 2)
         ELSE JsonMembers(ts, p + 1, << >>)
    ELSE IF JsonIs(JsonAt(ts, p), "[")
    THEN IF JsonIs(JsonAt(ts, p + 1), "]") THEN ReadAs(Json("array", "", << >>), p + 2)
         ELSE JsonElements(ts, p + 1, << >>)
    ELSE IF JsonAt(ts, p).kind \in {"string", "number", "literal"}
    THEN ReadAs(Scalar(JsonAt(ts, p)), p + 1)
    ELSE Stuck(p, "value")

\* The character the parser stops at, '' for the end of the text: where it
\* wants a value it has read a misspelt word up to the character that is
\* wrong.
Culprit(token, wanted) ==
    IF token.kind = "misspelt" /\ wanted = "value" THEN token.culprit ELSE token.text

\* The texts for which the message names the whole text and nothing else.
SpecialStrings == {"NaN", "Infinity", "undefined", "[object Object]"}

\* The text is quoted in the message as it is when it is shorter than this.
ContextFrom == 21

\* The message of the SyntaxError, for the character the parser stops at.
JsonComplaint(t, c) ==
    IF c = "" THEN "Unexpected end of JSON input"
    ELSE IF t \in SpecialStrings THEN "\"" \o t \o "\" is not valid JSON"
    ELSE "Unexpected token '" \o c \o "', \"" \o t \o "\" is not valid JSON"

\* The errors whose message is modelled: where a value is wanted the text
\* ends, or there is a character that begins no value, in a text that the
\* message quotes as it is.
Worded(t, token, wanted) ==
    /\ wanted = "value"
    /\ token.kind \in {"end", "mark", "illegal", "misspelt"}
    /\ ~IsDigit(Culprit(token, wanted)) /\ Culprit(token, wanted) \notin {"-", "\""}
    /\ Culprit(token, wanted) = "" \/ Len(t) < ContextFrom \/ t \in SpecialStrings

Parse(modelled, threw, message, value) ==
    [modelled |-> modelled, threw |-> threw, message |-> message, value |-> value]

Unmodelled == Parse(FALSE, FALSE, "", JsonUndefined)

\* What JSON.parse does with the text, its tokens and what reading a value
\* from the first token on gave: it returns the value when the text ends
\* after it, and throws otherwise.
Parsing(t, ts, read) ==
    IF \E j \in DOMAIN ts : ts[j].kind = "beyond" THEN Unmodelled
    ELSE IF read.good
    THEN IF read.next = Len(ts) + 1 THEN Parse(TRUE, FALSE, "", read.value) ELSE Unmodelled
    ELSE IF Worded(t, JsonAt(ts, read.next), read.wanted)
    THEN Parse(TRUE, TRUE, JsonComplaint(t, Culprit(JsonAt(ts, read.next), read.wanted)),
               JsonUndefined)
    ELSE Unmodelled

Tokenized(t, ts) == Parsing(t, ts, JsonValue(ts, 1))

\* JSON.parse(t)
JSONparse(t) == Tokenized(t, JsonTokens(t))

\* value[key]: the member of an object that is the last with the key;
\* undefined for a value that has none. null has no properties.
OwnProperty(value, key) ==
    IF value.type = "object" /\ \E j \in DOMAIN value.members : value.members[j].key = key
    THEN value.members[Highest({j \in DOMAIN value.members :
                                    value.members[j].key = key})].value
    ELSE JsonUndefined

\* The message of the TypeError reading `name` of the value raises.
CannotRead(value, name) ==
    "Cannot read properties of " \o value.type \o " (reading '" \o name \o "')"

\* event.pull_request.number: the message of the error it raises, '' for none
NumberError(event) ==
    IF event.type = "null" THEN CannotRead(event, "pull_request")
    ELSE IF OwnProperty(event, "pull_request").type \in {"null", "undefined"}
    THEN CannotRead(OwnProperty(event, "pull_request"), "number")
    ELSE ""

\* A value of the payload as a value of the script: a number, a string, a
\* boolean or undefined.
Primitive(value) ==
    CASE value.type = "number" -> Number(Integer(DigitValue(value.text)))
      [] value.type = "string" -> String(value.text)
      [] value.type = "boolean" -> Boolean(value.text = "true")
      [] value.type = "undefined" -> Undefined

\* const pr = event.pull_request.number, for the text of the event
EventNumber(t) == Primitive(OwnProperty(OwnProperty(JSONparse(t).value, "pull_request"), "number"))

\* The triggers a run is started on: the text of the event payload file for
\* the PR script and the app analyser, the URL typed in for the repository
\* analyser.
Payloads ==
    {"", "not json", "{}", "{\"pull_request\":{\"number\":7}}", "{\"a\":1}", "null", "[]",
     "7", " {}", "{\"pull_request\":null}", "nul", "[1,]", "undefined",
     "{\"pull_request\":{}}",
     "{\"pull_request\":null,\n \"pull_request\":{\"number\":7}}"}

RepoUrls == {"https://github.com/owner/repo", "https://example.com/owner/repo",
             "github.com/o/r.git", "https://github.com/owner", "https://github.com//repo",
             "https://github.com/owner/"}

Triggers(m) == IF m = "repo" THEN RepoUrls ELSE Payloads

\* The place after the run of characters other than "/" that begins at j.
RunEnd(t, j) == Lowest({k \in j..(Len(t) + 1) : CharAt(t, k) \in {"/", ""}})

\* /github\.com\/([^\/]+)\/([^\/]+)/ matches t from place j on: "github.com/"
\* is followed by a run of characters other than "/", a "/" and one more
\* such run.
MatchesAt(t, j) ==
    /\ j + 10 <= Len(t) /\ SubSeq(t, j, j + 10) = "github.com/"
    /\ RunEnd(t, j + 11) > j + 11
    /\ CharAt(t, RunEnd(t, j + 11)) = "/"
    /\ RunEnd(t, RunEnd(t, j + 11) + 1) > RunEnd(t, j + 11) + 1

\* repoUrl.match(/github\.com\/([^\/]+)\/([^\/]+)/)
RepoUrlMatches(t) == \E j \in 1..Len(t) : MatchesAt(t, j)

\* The first place where the expression matches.
MatchPlace(t) == Lowest({j \in 1..Len(t) : MatchesAt(t, j)})

\* The run of characters other than "/" that begins at j.
RunFrom(t, j) == SubSeq(t, j, RunEnd(t, j) - 1)

\* urlMatch[1]
Owner(t) == RunFrom(t, MatchPlace(t) + 11)

\* urlMatch[2].replace(/\.git$/, '')
WithoutGit(name) == IF endsWith(name, ".git") THEN SubSeq(name, 1, Len(name) - 4) ELSE name

Repo(t) == WithoutGit(RunFrom(t, RunEnd(t, MatchPlace(t) + 11) + 1))

\* The message of the error reading the trigger t raises, "" when it raises
\* none: JSON.parse of the payload and event.pull_request.number, or the
\* match of the URL.
InputError(m, t) ==
    IF m = "repo"
    THEN IF RepoUrlMatches(t) THEN "" ELSE "Invalid GitHub repository URL"
    ELSE CASE JSONparse(t).modelled ->
                  IF JSONparse(t).threw THEN JSONparse(t).message
                  ELSE NumberError(JSONparse(t).value)

\* The messages an unreadable trigger can leave in `error`.
InputErrors == UNION {{InputError(m, t) : t \in Triggers(m)} : m \in Modes} \ {""}

\* The script reads its trigger: the event payload, or the line typed at the
\* prompt. The PR script reads it at module top level, the other two inside
\* the try block of their main function. The repository analyser takes the
\* two names from the URL and requests 'GET /repos/{owner}/{repo}'.
ParseInput(t) ==
    /\ pc = "start"
    /\ IF InputError(mode, t) # ""
       THEN /\ IF mode = "pr" THEN Crash(InputError(mode, t)) ELSE Fail(InputError(mode, t))
            /\ UNCHANGED << pr, owner, repo >>
       ELSE IF mode = "repo"
       THEN /\ pc' = "requesting"
            /\ owner' = Owner(t)
            /\ repo' = Repo(t)
            /\ UNCHANGED << pr, analysis_status, error, exitCode >>
       ELSE /\ pc' = "batching"
            /\ pr' = EventNumber(t)
            /\ UNCHANGED << owner, repo, analysis_status, error, exitCode >>
    /\ UNCHANGED << listVars, mode, reportFileName, saved, issue, files, codeFiles, batches,
                    currentBatch, currentBatchSize, linesAdded, testsChanged, licenseComment,
                    totalFiles, analyzed_files, aggVars, rulesText, rules, r, failures,
                    warnings, notifications, pending >>

\* The request for the repository is answered, or it is rejected.
RepositoryAnswers(found) ==
    /\ mode = "repo" /\ pc = "requesting"
    /\ IF found THEN pc' = "batching" /\ UNCHANGED << analysis_status, error, exitCode >>
       ELSE Fail("Not Found")
    /\ UNCHANGED << listVars, mode, siteVars, files, codeFiles, batches, currentBatch,
                    currentBatchSize, linesAdded, testsChanged, licenseComment, totalFiles,
                    analyzed_files, aggVars, rulesText, rules, r, failures, warnings,
                    notifications, pending >>

\* The directory of the repository analyser's script.
dirname == "/home/runner/work/scripts"

\* fs.readFile('scripts/review.txt', 'utf8') and
\* fs.readFile(path.join(__dirname, 'review.txt'), 'utf8')
RulesPath(m) == IF m = "pr" THEN "scripts/review.txt" ELSE dirname \o "/review.txt"

\* The message of the error fs.readFile rejects with when the file is missing.
ReadError(path) == "ENOENT: no such file or directory, open '" \o path \o "'"

\* The rules file is read and parsed. A file that cannot be read ends the PR
\* script, which reads it at module top level, and fails the repository
\* analysis.
LoadRules(text, readable) ==
    /\ pc = "rules"
    /\ readable \/ mode \in {"pr", "repo"}
    /\ IF readable
       THEN /\ pc' = "evaluating"
            /\ rulesText' = text
            /\ rules' = Parsed(mode, text)
            /\ UNCHANGED << analysis_status, error, exitCode >>
       ELSE /\ IF mode = "pr" THEN Crash(ReadError(RulesPath(mode)))
               ELSE Fail(ReadError(RulesPath(mode)))
            /\ UNCHANGED << rulesText, rules >>
    /\ UNCHANGED << listVars, mode, siteVars, files, codeFiles, batches, currentBatch, currentBatchSize,
                    linesAdded, testsChanged, licenseComment, totalFiles,
                    analyzed_files, aggVars, r, failures, warnings,
                    notifications, pending >>

\* (rule.severity === 'error' ? failures : warnings).push(rule.message.trim())
Pushed(list, rule, toFailures, triggered) ==
    IF triggered /\ ((rule.severity = "error") = toFailures)
    THEN Append(list, trim(rule.message)) ELSE list

\* One iteration of `for (const rule of rules)`. An error the evaluation
\* raises ends the PR script and fails the repository analysis. What the
\* condition wrote to the variables of the PR script stays written.
Evaluation(m, rule, ctx) ==
    IF m = "app" THEN RestrictedEval(Condition(m, rule), ctx)
    ELSE Eval(m, Condition(m, rule), ctx)

\* The body of the loop, for the rule and what evaluating its condition gave.
RuleBody(rule, e) ==
    /\ r' = r + 1
    /\ IF mode = "pr"
       THEN /\ linesAdded' = e.vars.linesAdded
            /\ testsChanged' = e.vars.testsChanged
            /\ licenseComment' = e.vars.licenseComment
            /\ overallAiProb' = e.vars.overallAiProb
            /\ currentBatchSize' = Whole(e.vars.currentBatchSize.number)
       ELSE UNCHANGED << linesAdded, testsChanged, licenseComment, overallAiProb,
                         currentBatchSize >>
    /\ failures' = Pushed(failures, rule, TRUE, ~e.threw /\ e.value)
    /\ warnings' = Pushed(warnings, rule, FALSE, ~e.threw /\ e.value)
    /\ IF ~e.threw THEN UNCHANGED << pc, analysis_status, error, exitCode >>
       ELSE IF mode = "pr" THEN Crash(e.message) ELSE Fail(e.message)

EvaluateRule ==
    /\ pc = "evaluating" /\ r < Len(rules)
    /\ RuleBody(rules[r + 1], Evaluation(mode, rules[r + 1], Context(mode)))
    /\ UNCHANGED << listVars, mode, siteVars, files, codeFiles, batches, currentBatch,
                    totalFiles, analyzed_files, i, allPatterns, allRationales,
                    overallCodeQuality, score, calls, started, outstanding,
                    rulesText, rules, notifications, pending >>

\* The loop has run over every rule; the repository analyser sets
\* reportData.analysis_status = 'completed' right after it.
FinishRules ==
    /\ pc = "evaluating" /\ r = Len(rules)
    /\ pc' = "publishing"
    /\ analysis_status' = IF mode = "repo" THEN "completed" ELSE analysis_status
    /\ UNCHANGED << listVars, mode, siteVars, files, codeFiles, batches, currentBatch, currentBatchSize,
                    linesAdded, testsChanged, licenseComment, totalFiles,
                    analyzed_files, aggVars, tailVars >>

\* The review is posted (PR script, app analyser). The PR script catches a
\* failed post; a failed postReviewToPR reaches the catch block of the app
\* analyser.
Publish(ok) ==
    /\ mode \in {"pr", "app"} /\ pc = "publishing"
    /\ IF ok \/ mode = "pr"
       THEN pc' = "notifying" /\ UNCHANGED << analysis_status, error, exitCode >>
       ELSE Fail("Not Found")
    /\ UNCHANGED << listVars, mode, siteVars, files, codeFiles, batches, currentBatch, currentBatchSize,
                    linesAdded, testsChanged, licenseComment, totalFiles,
                    analyzed_files, aggVars, rulesText, rules, r, failures, warnings,
                    notifications, pending >>

\* Date.now() when the report is saved, in the decimal digits the name of
\* the file is written with.
Instants == {"1793446797525", "1793446800000"}

\* const reportFileName = [report-(owner)-(repo)-(Date.now()).json]
ReportFileName(o, n, now) == "report-" \o o \o "-" \o n \o "-" \o now \o ".json"

\* What fs.writeFile can fail with.
WriteFailures == {"EACCES: permission denied", "ENOENT: no such file or directory"}

\* What becomes of a call of fs.writeFile: '' when the file is written.
WriteOutcomes == {""} \cup WriteFailures

\* The message of the error fs.writeFile rejects with.
WriteError(failure, path) == failure \o ", open '" \o path \o "'"

\* JSON.stringify(reportData, null, 2), as far as the status and the
\* address of the issue go.
Report(status, withIssue) == [analysis_status |-> status, issue_url |-> withIssue]

\* Repository analyser: the name of the report file is chosen and the report
\* is written to it; a failed fs.writeFile reaches the catch block of the
\* analyser. createAndCloseRepoIssue then asks for the issue.
SaveReport(now, outcome) ==
    /\ mode = "repo" /\ pc = "publishing"
    /\ reportFileName' = ReportFileName(owner, repo, now)
    /\ IF outcome = ""
       THEN /\ pc' = "issuing"
            /\ saved' = Append(saved, Report(analysis_status, FALSE))
            /\ UNCHANGED << analysis_status, error, exitCode >>
       ELSE /\ Fail(WriteError(outcome, ReportFileName(owner, repo, now)))
            /\ UNCHANGED saved
    /\ UNCHANGED << listVars, mode, pr, owner, repo, issue, files, codeFiles, batches,
                    currentBatch, currentBatchSize, linesAdded, testsChanged, licenseComment,
                    totalFiles, analyzed_files, aggVars, rulesText, rules, r, failures,
                    warnings, notifications, pending >>

\* 'POST /repos/{owner}/{repo}/issues' is answered, and the request that
\* closes the issue goes out; or it is rejected: createAndCloseRepoIssue
\* catches the error and returns null, and the report is left as it is.
CreateIssue(ok) ==
    /\ mode = "repo" /\ pc = "issuing"
    /\ pc' = IF ok THEN "closing" ELSE "notifying"
    /\ issue' = IF ok THEN "open" ELSE issue
    /\ UNCHANGED << listVars, mode, pr, owner, repo, reportFileName, saved, files, codeFiles,
                    batches, currentBatch, currentBatchSize, linesAdded, testsChanged,
                    licenseComment, totalFiles, analyzed_files, analysis_status, aggVars,
                    tailVars >>

\* 'PATCH /repos/{owner}/{repo}/issues/{issue_number}' is answered: the
\* address of the issue is returned and put into the report, which is
\* written again; or it is rejected, and null is returned.
CloseIssue(ok) ==
    /\ mode = "repo" /\ pc = "closing"
    /\ pc' = IF ok THEN "updating" ELSE "notifying"
    /\ issue' = IF ok THEN "closed" ELSE issue
    /\ UNCHANGED << listVars, mode, pr, owner, repo, reportFileName, saved, files, codeFiles,
                    batches, currentBatch, currentBatchSize, linesAdded, testsChanged,
                    licenseComment, totalFiles, analyzed_files, analysis_status, aggVars,
                    tailVars >>

\* The second fs.writeFile, of the report with the address of the issue.
UpdateReport(outcome) ==
    /\ mode = "repo" /\ pc = "updating"
    /\ IF outcome = ""
       THEN /\ pc' = "notifying"
            /\ saved' = Append(saved, Report(analysis_status, TRUE))
            /\ UNCHANGED << analysis_status, error, exitCode >>
       ELSE /\ Fail(WriteError(outcome, reportFileName))
            /\ UNCHANGED saved
    /\ UNCHANGED << listVars, mode, pr, owner, repo, reportFileName, issue, files, codeFiles,
                    batches, currentBatch, currentBatchSize, linesAdded, testsChanged,
                    licenseComment, totalFiles, analyzed_files, aggVars, rulesText, rules, r,
                    failures, warnings, notifications, pending >>

\* if (parseFloat(score) > 55)
ScoreAbove(text) == Above(parseFloat(text), Divide(NotifyAbove, 1))

Attempt(status, ok) == [status |-> status, delivered |-> ok]

\* What becomes of a chat notification: it is delivered, the webhook URL is
\* missing or malformed, the connection fails, or the webhook answers with an
\* HTTP error status.
Deliveries == {"delivered", "invalid_url", "network_error", "http_error"}

\* What becomes of a request that has been started.
Responses == Deliveries \ {"invalid_url"}

\* The app analyser's sendSlackNotification: failures are logged, never
\* escalated.
sendSlackNotificationRaises(d) == FALSE

\* The notification raises an error into its caller. `new URL(slackWebhookUrl)`
\* raises a TypeError on a missing or malformed URL: the PR script calls it
\* outside any try block, sendToSlack inside one; a failed connection and an
\* HTTP error status reach callbacks that log them.
SendRaises(m, d) ==
    IF m = "app" THEN sendSlackNotificationRaises(d)
    ELSE IF m = "pr" THEN d = "invalid_url" ELSE FALSE

\* The chat notification. The PR script starts a request when the score is
\* above 55 and goes on without waiting for it; the repository analyser awaits
\* sendToSlack in `finally`; the app analyser awaits sendSlackNotification
\* before it sets 'completed', and again in its catch block.
Notify(d) ==
    /\ pc = "notifying"
    /\ IF mode = "pr"
       THEN IF ~ScoreAbove(score)
            THEN /\ pc' = "exiting"
                 /\ UNCHANGED << notifications, pending, analysis_status, error, exitCode >>
            ELSE IF SendRaises(mode, d)
            THEN Crash("Invalid URL") /\ UNCHANGED << notifications, pending >>
            ELSE /\ pc' = "exiting"
                 /\ notifications' = Append(notifications, Attempt("completed", FALSE))
                 /\ pending' = pending + 1
                 /\ UNCHANGED << analysis_status, error, exitCode >>
       ELSE /\ notifications' =
                   Append(notifications, Attempt(analysis_status, d = "delivered"))
            /\ UNCHANGED pending
            /\ IF mode = "app" /\ analysis_status # "failed"
               THEN IF SendRaises(mode, d) THEN Fail("request failed")
                    ELSE pc' = "completing" /\ UNCHANGED << analysis_status, error, exitCode >>
               ELSE pc' = "exiting" /\ UNCHANGED << analysis_status, error, exitCode >>
    /\ UNCHANGED << listVars, mode, siteVars, files, codeFiles, batches, currentBatch, currentBatchSize,
                    linesAdded, testsChanged, licenseComment, totalFiles,
                    analyzed_files, aggVars, rulesText, rules, r, failures, warnings >>

\* PR script: the response of a started request arrives, or its 'error' event
\* fires; the callbacks log a failure. The script runs from req.end() to its
\* last line without yielding, so no callback runs before line 287.
Settle(d) ==
    /\ mode = "pr" /\ pc = "exiting" /\ pending > 0 /\ failures = << >>
    /\ pending' = pending - 1
    /\ notifications' = [notifications EXCEPT ![Len(notifications)] =
                             Attempt(@.status, d = "delivered")]
    /\ UNCHANGED << listVars, mode, siteVars, pc, files, codeFiles, batches, currentBatch, currentBatchSize,
                    linesAdded, testsChanged, licenseComment, totalFiles,
                    analyzed_files, analysis_status, aggVars, rulesText, rules, r,
                    failures, warnings, error, exitCode >>

\* App analyser: reportData.analysis_status = 'completed', the last statement
\* of the try block.
MarkCompleted ==
    /\ pc = "completing"
    /\ pc' = "exiting"
    /\ analysis_status' = "completed"
    /\ UNCHANGED << listVars, mode, siteVars, files, codeFiles, batches, currentBatch, currentBatchSize,
                    linesAdded, testsChanged, licenseComment, totalFiles,
                    analyzed_files, aggVars, tailVars >>

\* if (failures.length) process.exit(1) ends the PR script at once; without
\* failures the process ends when nothing is left to wait for. The other two
\* scripts return.
Exit ==
    /\ pc = "exiting"
    /\ mode = "pr" /\ failures = << >> => pending = 0
    /\ pc' = "done"
    /\ exitCode' = IF mode = "pr" /\ failures # << >> THEN 1 ELSE 0
    /\ UNCHANGED << listVars, mode, siteVars, files, codeFiles, batches, currentBatch, currentBatchSize,
                    linesAdded, testsChanged, licenseComment, totalFiles,
                    analyzed_files, analysis_status, aggVars, rulesText, rules, r,
                    failures, warnings, error, notifications, pending >>

\* Classifier results around the threshold 0.8 of the rules.
ExitVerdicts(m) ==
    IF m = "app"
    THEN { Thrown, Verdict(Divide(85, 1), "good", << "a" >>, "generic names"),
           Verdict(Divide(50, 1), "poor", << "b" >>, "hand-written") }
    ELSE { Thrown, Verdict(Divide(85, 100), "good", << "a" >>, "generic names"),
           Verdict(Divide(50, 100), "poor", << "b" >>, "hand-written") }

\* The rules files of whole runs: up to MaxRunSections sections, each of
\* which gives a rule.
RunSections(m) == { section \in SectionsOf(m) : Parsed(m, section) # << >> }

\* The texts made of up to n of the sections, one after the other.
TextsOf(sections, n) == { join(ss, "") : ss \in UNION { [1..k -> sections] : k \in 0..n } }

RunTextsPR == TextsOf(RunSections("pr"), MaxRunSections)

RunTextsRepo == TextsOf(RunSections("repo"), MaxRunSections)

RunTextsApp == TextsOf(RunSections("app"), MaxRunSections)

RunTexts(m) ==
    IF m = "pr" THEN RunTextsPR ELSE IF m = "repo" THEN RunTextsRepo ELSE RunTextsApp

\* Whole runs, from the trigger to the exit, on lists of up to MaxExitFiles
\* files.
InitRun == Started("start")

ReadTrigger == \E t \in Triggers(mode) : ParseInput(t)

RepositoryAnswersAny == \E found \in BOOLEAN : RepositoryAnswers(found)

FetchOne == /\ Len(files) < MaxExitFiles
            /\ \E f \in FilesOf(mode) : MayFetch(files, f) /\ FetchFile(f)

ClassifyRun == \E v \in ExitVerdicts(mode) : AnalyzeBatch(v)

LoadRun ==
    pc = "rules" /\ \E text \in RunTexts(mode), readable \in BOOLEAN : LoadRules(text, readable)

PublishAny == \E ok \in BOOLEAN : Publish(ok)

SaveReportAny == \E now \in Instants, outcome \in WriteOutcomes : SaveReport(now, outcome)

CreateIssueAny == \E ok \in BOOLEAN : CreateIssue(ok)

CloseIssueAny == \E ok \in BOOLEAN : CloseIssue(ok)

UpdateReportAny == \E outcome \in WriteOutcomes : UpdateReport(outcome)

NotifyAny == \E d \in Deliveries : Notify(d)

SettleAny == \E d \in Responses : Settle(d)

NextRun ==
    \/ ReadTrigger \/ RepositoryAnswersAny \/ FetchOne \/ FinishBatching \/ BeginCall
    \/ ClassifyRun \/ FinishAnalysis \/ LoadRun \/ EvaluateRule \/ FinishRules
    \/ PublishAny \/ SaveReportAny \/ CreateIssueAny \/ CloseIssueAny \/ UpdateReportAny
    \/ NotifyAny \/ SettleAny \/ MarkCompleted \/ Exit

SpecRun == InitRun /\ [][NextRun]_vars

\* The rule parsers alone, on every text of up to MaxSections sections, in a
\* run that found no file.
InitParse == Started("rules") /\ mode \in {"pr", "repo"}

\* What a rules file begins with, before its first section.
Preambles == {"", "# the rules of the review\n"}

WithPreamble(texts) == { before \o text : before \in Preambles, text \in texts }

TextsPR == WithPreamble(TextsOf(SectionsOf("pr"), MaxSections))

TextsRepo == WithPreamble(TextsOf(SectionsOf("repo"), MaxSections))

Texts(m) == IF m = "pr" THEN TextsPR ELSE TextsRepo

LoadAny == \E text \in Texts(mode) : LoadRules(text, TRUE)

SpecParse == InitParse /\ [][LoadAny]_vars

\* ------------------------------------------------- batching: claims
\* The file is one the batching loop places into a batch.
Eligible(m, f) == IF m = "repo" THEN f.fetch = "ok" /\ f.has
                  ELSE IF m = "pr" THEN f.has
                  ELSE f.has /\ ~f.excl

EligiblePaths(m, fs) ==
    SelectSeq([j \in DOMAIN fs |-> j], LAMBDA j : Eligible(m, fs[j]))

\* Every file placed so far, in batch order.
Placed == Flatten(batches) \o (IF pc = "batching" THEN currentBatch ELSE << >>)

ByteLimit(m) == IF m = "pr" THEN MAX_DIFF_LENGTH
                ELSE IF m = "repo" THEN MAX_BATCH_SIZE ELSE maxBatchSize

\* The number of files the batching loop of a script lets into a batch; the
\* loop of the pull-request script tests the size alone and has no such
\* number.
FileLimit(m) ==
    CASE m = "repo" -> MAX_FILES_PER_BATCH
      [] m = "app" -> maxFilesPerBatch

\* Section 4.2: `maxFilesPerBatch`, the limit stated for the batches of every
\* variant.
StatedFileLimit(m) == IF m = "pr" THEN maxFilesPerBatch ELSE FileLimit(m)

Emitted == {batches[b] : b \in DOMAIN batches}

\* C1: in the pull-request script and the repository analyser, the batches
\* concatenated in batch order (with the batch still open while the loop
\* runs) are exactly the eligible files fetched so far, in input order.
BatchesPartitionEligibleFiles ==
    mode \in {"pr", "repo"} => Paths(Placed) = EligiblePaths(mode, files)

\* C1 witness: the loop has ended with at least two batches and has skipped
\* a file that carries no patch or no readable content.
PartitionWitness ==
    /\ mode \in {"pr", "repo"} /\ pc = "analyzing"
    /\ Len(batches) >= 2
    /\ \E j \in DOMAIN files : ~Eligible(mode, files[j])

\* C2: the sizes accumulated for an emitted batch sum to at most the byte
\* limit, unless the batch holds one file that alone exceeds the limit.
BatchWithinByteLimit ==
    mode \in {"pr", "repo"} =>
        \A b \in Emitted :
            \/ SumSizes(b) <= ByteLimit(mode)
            \/ Len(b) = 1 /\ b[1].size > ByteLimit(mode)

\* C2 witness: one emitted batch of two files fills the limit exactly and
\* another holds a single file larger than the limit.
ByteLimitWitness ==
    /\ mode = "pr"
    /\ \E b \in Emitted : Len(b) = 2 /\ SumSizes(b) = MAX_DIFF_LENGTH
    /\ \E b \in Emitted : Len(b) = 1 /\ SumSizes(b) > MAX_DIFF_LENGTH

\* C3: no emitted batch of any pipeline variant holds more files than the
\* per-batch file-count limit.
BatchWithinFileLimit == \A b \in Emitted : Len(b) <= StatedFileLimit(mode)

\* C4: in the pull-request script and the repository analyser, once the
\* loop has ended, a file whose own size exceeds the byte limit is in some
\* batch, and that batch holds no other file.
OversizedFileAlone ==
    (mode \in {"pr", "repo"} /\ pc # "batching") =>
        \A j \in DOMAIN files :
            (Eligible(mode, files[j]) /\ files[j].size > ByteLimit(mode)) =>
                \E b \in Emitted : Paths(b) = << j >>

\* ---------------------------------------------- aggregation: claims
\* The weights of the first n batches, added in batch order.
RECURSIVE SumWeights(_)
SumWeights(n) == IF n = 0 THEN Zero ELSE Add(SumWeights(n - 1), Weight(batches[n]))

\* C5: once the batches are formed, the weights the probability sum uses
\* (batch file count over the denominator) add up to exactly 1.
WeightsSumToOne ==
    (pc \in {"analyzing", "rules"} /\ batches # << >>) =>
        SumWeights(Len(batches)) = Divide(1, 1)

FilteredCount == Len(EligiblePaths(mode, files))

\* The sum, over the first n classifier calls that returned a verdict, of the
\* verdict's probability times batch file count over filtered file count,
\* added up in batch order in Number arithmetic.
RECURSIVE ExpectedProbability(_)
ExpectedProbability(n) ==
    IF n = 0 THEN Zero
    ELSE IF calls[n].ok
         THEN Add(ExpectedProbability(n - 1),
                      Multiply(calls[n].ai_prob, Divide(Len(batches[n]), FilteredCount)))
         ELSE ExpectedProbability(n - 1)

\* C6: in the repository and app analysers the aggregate probability is, after
\* each batch and so after the last, the sum over the batches whose call
\* succeeded of probability times batch file count over filtered file count.
AggregateIsWeightedSum ==
    (mode \in {"repo", "app"} /\ pc \in {"analyzing", "rules"}) =>
        overallAiProb = Number(ExpectedProbability(Len(calls)))

\* C6 witness: batches of 3 and 2 files with probabilities 0.9 and 0.1 have
\* been processed and the aggregate is 0.9 * (3 / 5) + 0.1 * (2 / 5), which
\* in Numbers is 0.5800000000000001.
WeightedSumWitness ==
    /\ mode = "repo" /\ pc = "rules"
    /\ Len(batches) = 2 /\ Len(batches[1]) = 3 /\ Len(batches[2]) = 2
    /\ calls[1].ok /\ calls[1].ai_prob = Divide(9, 10)
    /\ calls[2].ok /\ calls[2].ai_prob = Divide(1, 10)
    /\ overallAiProb.number = Add(Multiply(Divide(9, 10), Divide(3, 5)),
                                  Multiply(Divide(1, 10), Divide(2, 5)))
    /\ Above(overallAiProb.number, Divide(58, 100))

\* C7: in every pipeline variant a classifier call that throws does not end
\* the run: the rationale trail has an error line for that batch, and the
\* loop goes on to the rules only after every batch got its call.
ClassifierErrorTolerated ==
    \A b \in DOMAIN calls :
        ~calls[b].ok =>
            /\ pc # "crashed"
            /\ b \in DOMAIN allRationales
            /\ allRationales[b] = ErrorLine(b - 1, calls[b].message)
            /\ pc = "rules" => Len(calls) = Len(batches)

\* The quality order of the spec: poor < average < good < excellent, any
\* other string ranking as poor.
FourQualities == {"poor", "average", "good", "excellent"}

Order(q) == CASE q = "poor" -> 0 [] q = "average" -> 1 [] q = "good" -> 2
              [] q = "excellent" -> 3 [] OTHER -> 0

Succeeded == {b \in DOMAIN calls : calls[b].ok}

\* C8: when every verdict so far carries one of the four qualities, the
\* aggregate quality is the lowest-ranked quality among the verdicts.
AggregateIsWorstQuality ==
    (Succeeded # {} /\ \A b \in Succeeded : calls[b].code_quality \in FourQualities) =>
        /\ \E b \in Succeeded : overallCodeQuality = calls[b].code_quality
        /\ \A b \in Succeeded : Order(overallCodeQuality) <= Order(calls[b].code_quality)

\* C9: once a verdict has seeded the aggregate quality, no step raises its
\* rank, whatever quality string the next verdict carries.
QualityRankStep ==
    Succeeded # {} => Order(overallCodeQuality') <= Order(overallCodeQuality)

QualityNeverUpgrades == [][QualityRankStep]_vars

\* C10: a verdict whose quality is none of the four acts like poor on a seeded
\* aggregate: average, good and excellent are downgraded to rank 0, and an
\* aggregate that is poor stays poor.
UnknownQualityStep ==
    (/\ Len(calls') = Len(calls) + 1
     /\ calls'[Len(calls')].ok
     /\ calls'[Len(calls')].code_quality \notin FourQualities
     /\ Succeeded # {}) =>
        /\ overallCodeQuality \in {"average", "good", "excellent"} =>
               /\ overallCodeQuality' = calls'[Len(calls')].code_quality
               /\ Order(overallCodeQuality') = 0
        /\ overallCodeQuality = "poor" => overallCodeQuality' = "poor"

UnknownQualityRanksAsPoor == [][UnknownQualityStep]_vars

\* The pattern strings of the first n classifier calls, failed calls giving
\* none, in call order.
RECURSIVE Reported(_)
Reported(n) ==
    IF n = 0 THEN << >> ELSE Reported(n - 1) \o calls[n].patterns_detected

\* The sequence without the entries that equal an earlier entry.
RECURSIVE FirstAppearances(_)
FirstAppearances(s) ==
    IF s = << >> THEN << >>
    ELSE LET n == Len(s)
             front == FirstAppearances(SubSeq(s, 1, n - 1))
         IN  IF \E j \in 1..(n - 1) : s[j] = s[n] THEN front ELSE Append(front, s[n])

\* C11: in the repository and app analysers the aggregate pattern list is the
\* pattern strings reported by the successful batches so far, each exactly
\* once under exact (case-sensitive) equality, in order of first appearance;
\* folding a verdict already folded a second time leaves the list unchanged.
PatternsAreOrderedUnion ==
    mode \in {"repo", "app"} =>
        /\ allPatterns = FirstAppearances(Reported(Len(calls)))
        /\ \A b \in Succeeded :
               AddPatterns(allPatterns, calls[b].patterns_detected) = allPatterns

\* C11 witness: the verdicts ["a"], ["A", "a"] and again ["A", "a"] have been
\* folded and the list is "a", "A".
OrderedUnionWitness ==
    /\ mode = "repo" /\ Len(calls) = 3
    /\ calls[1].patterns_detected = << "a" >>
    /\ calls[2].patterns_detected = << "A", "a" >>
    /\ calls[3].patterns_detected = << "A", "a" >>
    /\ allPatterns = << "a", "A" >>

\* C12: once the batch loop has ended the rationale trail has exactly one
\* entry per batch, in batch order; the entry of batch b carries the number b
\* and, when the call succeeded, the batch's file count and the verdict's
\* rationale, and is an error line when the call failed.
RationaleTrailPerBatch ==
    pc = "rules" =>
        /\ Len(allRationales) = Len(batches)
        /\ \A b \in DOMAIN allRationales :
               /\ allRationales[b].batch = b
               /\ IF calls[b].ok
                  THEN /\ ~allRationales[b].error
                       /\ allRationales[b].files = Len(batches[b])
                       /\ allRationales[b].text = calls[b].rationale
                  ELSE allRationales[b].error

\* C19: the classifier calls started so far are those of batches 0, 1, 2, ...
\* in this order, none twice; at most one call is outstanding, and a call
\* starts only when every earlier one has settled; once the loop has ended
\* every batch has had its call.
SequentialClassifierCalls ==
    /\ started = [b \in 1..Len(started) |-> b - 1]
    /\ Len(started) <= Len(batches)
    /\ outstanding \in {0, 1}
    /\ Len(started) = Len(calls) + outstanding
    /\ pc = "rules" => Len(started) = Len(batches)

\* C19 witness: the third call is outstanding, the first returned a verdict
\* and the second threw.
SequentialCallsWitness ==
    /\ mode \in {"repo", "app"}
    /\ started = << 0, 1, 2 >> /\ outstanding = 1
    /\ Len(calls) = 2 /\ calls[1].ok /\ ~calls[2].ok

\* ------------------------------------------------------ rules: claims
\* The context the aggregate results give, whatever ran since: the lines,
\* test files and license comments of the files the batching loop read.
RECURSIVE SumAdds(_)
SumAdds(fs) ==
    IF fs = << >> THEN 0
    ELSE (IF Eligible(mode, Head(fs)) THEN Head(fs).adds ELSE 0) + SumAdds(Tail(fs))

AggregateContext ==
    [ai_prob |-> Context(mode).ai_prob,
     lines_added |-> Number(Integer(SumAdds(files))),
     tests_changed |->
         Boolean(\E j \in DOMAIN files : Eligible(mode, files[j]) /\ files[j].test),
     license_comment |->
         Boolean(\E j \in DOMAIN files : Eligible(mode, files[j]) /\ files[j].lic)]

\* The reading the spec gives a condition: its names are the fields of the
\* context, written alone or after `ctx.`.
Reading(cond, ctx) ==
    Run(Tokens(cond),
        [ctx |-> ctx,
         vars |-> [n \in DOMAIN ctx \cup {"ctx"} |-> IF n = "ctx" THEN Object ELSE ctx[n]],
         consts |-> DOMAIN ctx \cup {"ctx"},
         dead |-> {}])

\* The token is one of the grammar or of `ctx.`.
OfContext(t) == InGrammar(t) \/ t = Word("ctx") \/ Is(t, ".")

\* The condition is a comparison over the context: it is made of the tokens
\* of the grammar and of `ctx.`, and it reads as an expression.
OverContext(cond) ==
    /\ \A j \in DOMAIN Tokens(cond) : OfContext(Tokens(cond)[j])
    /\ Reading(cond, AggregateContext).error = ""

\* The condition is true of the context.
Meaning(cond, ctx) == Truthy(Reading(cond, ctx).value)

\* The messages of those of the first n rules whose condition is true of
\* the aggregate context and whose severity is (toFailures) or is not error.
RECURSIVE Triggered(_, _)
Triggered(n, toFailures) ==
    IF n = 0 THEN << >>
    ELSE IF /\ Meaning(Condition(mode, rules[n]), AggregateContext)
            /\ (rules[n].severity = "error") = toFailures
         THEN Append(Triggered(n - 1, toFailures), rules[n].message)
         ELSE Triggered(n - 1, toFailures)

RulesLeft ==
    pc \in {"publishing", "issuing", "closing", "updating", "notifying", "exiting", "done",
            "crashed"}

\* C13: when every loaded rule has a comparison over the context as its
\* condition, the failures and the warnings are the messages of the rules
\* evaluated so far whose condition is true of the aggregate context, in rule
\* order, and the script leaves the rules only after it evaluated every rule.
RulesEvaluatedInOrder ==
    (\A k \in DOMAIN rules : OverContext(Condition(mode, rules[k]))) =>
        /\ failures = Triggered(r, TRUE)
        /\ warnings = Triggered(r, FALSE)
        /\ (RulesLeft /\ rules # << >>) => r = Len(rules)

Range(list) == {list[j] : j \in DOMAIN list}

\* C14: a rule with the condition ai_prob > 0.8 and severity error that has
\* been evaluated raised no error for a name it reads, and its message is
\* among the failures exactly when the aggregate probability is above 0.8.
ContextNamesResolve ==
    \A k \in 1..r :
        (/\ Condition(mode, rules[k]) = "ai_prob > 0.8"
         /\ rules[k].severity = "error") =>
            /\ error \notin {"ai_prob is not defined", "lines_added is not defined"}
            /\ (rules[k].message \in Range(failures))
                   <=> Above(overallAiProb.number, Divide(8, 10))

\* C15: the step that evaluates a rule changes nothing of the files, the
\* statistics, the batches and the aggregate, and a condition that is no
\* comparison over the context leaves failures and warnings as they were.
ConditionFrameStep ==
    r' = r + 1 =>
        /\ UNCHANGED << files, codeFiles, batches, linesAdded, testsChanged,
                        licenseComment, totalFiles, analyzed_files, aggVars, rules >>
        /\ ~OverContext(Condition(mode, rules[r'])) =>
               UNCHANGED << failures, warnings >>

ConditionChangesOnlyLists == [][ConditionFrameStep]_vars

\* The line begins, after its blanks, with the comment marker.
StartsWithMarker(line) == startsWith(trim(line), "#")

\* The lines of a section that are neither blank nor comments.
Supplying(section) ==
    SelectSeq(split(section, "\n"), LAMBDA l : trim(l) # "" /\ ~StartsWithMarker(l))

\* The line of `lines` that is the last one with the key k, 0 when none is.
LastWith(lines, k) ==
    IF \E j \in DOMAIN lines : Key(lines[j]) = k
    THEN CHOOSE j \in DOMAIN lines :
             Key(lines[j]) = k /\ \A h \in (j + 1)..Len(lines) : Key(lines[h]) # k
    ELSE 0

\* The value the last line with key k supplies (empty when none does).
Supplied(section, k) ==
    IF LastWith(Supplying(section), k) = 0 THEN ""
    ELSE ValueOf(Supplying(section)[LastWith(Supplying(section), k)])

\* The rule of the '## ' format for these lines: the title names the rule and
\* its condition, and the lines under the title are the message.
ExpectedTitled(lines) ==
    IF lines = << >> THEN TitledRule(<< "" >>) ELSE TitledRule(lines)

\* The rule of a section: key/value lines in the '[rule]' format.
ExpectedRule(m, section) ==
    IF m = "repo" THEN ExpectedTitled(Supplying(section))
    ELSE [k \in RuleKeys |-> Supplied(section, k)]

Complete(m, rule) ==
    IF m = "repo"
    THEN /\ rule.name # "" /\ rule.condition # ""
         /\ rule.severity # "" /\ rule.message # ""
    ELSE \A k \in RuleKeys : rule[k] # ""

RECURSIVE ExpectedOf(_, _)
ExpectedOf(m, sections) ==
    IF sections = << >> THEN << >>
    ELSE (IF Complete(m, ExpectedRule(m, Head(sections)))
          THEN << ExpectedRule(m, Head(sections)) >> ELSE << >>)
         \o ExpectedOf(m, Tail(sections))

\* The text after each marker is a section.
ExpectedRules(m, text) ==
    ExpectedOf(m, slice(split(text, IF m = "repo" THEN "## " ELSE "[rule]")))

\* C16: the parser returns, in section order, one rule for each section whose
\* lines other than blank lines and comments supply a non-empty name,
\* condition, severity and message, and no rule for any other section.
ParserKeepsCompleteSections ==
    pc = "evaluating" => rules = ExpectedRules(mode, rulesText)

\* ------------------------------------------------- whole runs: claims
Ended == pc \in {"done", "crashed"}

\* Filtering left no file: the repository's code-file list, or the files of
\* the pull request that pass the filter.
NothingToAnalyze == IF mode = "repo" THEN files = << >> ELSE FilteredCount = 0

\* The repository the URL names could not be fetched, so no file was listed.
RepositoryMissing == mode = "repo" /\ error = "Not Found"

\* C17: a run that read its trigger and found no file to analyse ends with a
\* status of its own (none of started, completed, failed), without a
\* classifier call and without evaluating a rule.
NothingToAnalyzeShortCircuits ==
    (Ended /\ error \notin InputErrors /\ ~RepositoryMissing /\ NothingToAnalyze) =>
        /\ analysis_status \notin {"started", "completed", "failed"}
        /\ started = << >>
        /\ rules = << >> /\ r = 0

\* C18: when the process has ended, its exit code is other than 0 exactly
\* when the failures list is not empty.
ExitCodeReflectsFailures ==
    Ended => (exitCode # 0 <=> failures # << >>)

\* C20: a run whose trigger could not be read has, when the process ends,
\* attempted one chat notification, and that one carries the status failed.
FatalInputErrorNotified ==
    (Ended /\ error \in InputErrors) =>
        /\ Len(notifications) = 1
        /\ notifications[1].status = "failed"

\* ------------------------------------------- notification: claims
\* The step sends the chat notification, or is the arrival of the response
\* or error of a request that was started.
NotificationStep == pc = "notifying" \/ pending' # pending

NotificationFrameStep ==
    NotificationStep =>
        /\ pc' # "crashed"
        /\ UNCHANGED << analysis_status, failures, warnings, error, exitCode >>

\* C21: whatever becomes of the chat notification (missing or invalid webhook
\* URL, network error, HTTP error status), sending it raises no error out of
\* the pipeline and leaves the analysis status, the failures, the warnings
\* and the exit code as they were.
NotificationFailureOnlyLogged == [][NotificationFrameStep]_vars

CompletedStaysStep == analysis_status = "completed" => analysis_status' = "completed"

\* C27: once analysis_status is 'completed' no later step (report
\* persistence, issue creation, review posting, notification) changes it.
CompletedIsFinal == [][CompletedStaysStep]_vars

\* C28: in the repository analyser and the app analyser every chat
\* notification sent so far carries the analysis status the run has now, so
\* the status is not changed after a notification and a run in which every
\* step succeeds notifies 'completed'.
NotificationCarriesFinalStatus ==
    mode # "pr" =>
        \A k \in DOMAIN notifications : notifications[k].status = analysis_status

\* C29: the PR script does not exit while a chat request it started has
\* neither been answered nor failed.
NoExitBeforeNotificationCompletes == mode = "pr" /\ Ended => pending = 0

\* ----------------------------------------- fetch errors, statistics
\* The positions in the file list of the files placed into batches.
PlacedPaths == LET ps == Placed IN {ps[k].path : k \in DOMAIN ps}

\* C22: in the repository analyser a file whose content request throws has
\* exactly one entry in analyzed_files, which carries the error; it is in no
\* batch and counts in neither the file count, the line count nor the test
\* and license flags; every file read before or after it has its own entry
\* without error and is in a batch.
FetchErrorRecordedAndSkipped ==
    mode = "repo" =>
        LET placed == PlacedPaths
            read == {j \in DOMAIN files : Eligible(mode, files[j])}
            recorded == {analyzed_files[k].path : k \in DOMAIN analyzed_files}
        IN  /\ \A k \in DOMAIN analyzed_files :
                   /\ analyzed_files[k].error = (files[analyzed_files[k].path].fetch = "throw")
                   /\ analyzed_files[k].path \in read
                          <=> analyzed_files[k].path \in placed
            /\ Cardinality(recorded) = Len(analyzed_files)
            /\ \A j \in DOMAIN files :
                   /\ files[j].fetch = "throw" => j \in recorded /\ j \notin placed
                   /\ j \in read => j \in recorded /\ j \in placed
            /\ totalFiles = Cardinality(read)
            /\ linesAdded = Number(Integer(SumAdds(files)))
            /\ testsChanged = Boolean(\E j \in read : files[j].test)
            /\ licenseComment = Boolean(\E j \in read : files[j].lic)

\* A file whose path looks like a test could not be fetched, no file that was
\* read looks like one, and a file listed after it is in a batch.
FetchErrorWitness ==
    /\ mode = "repo" /\ pc = "analyzing" /\ ~testsChanged.boolean
    /\ \E j \in DOMAIN files :
           /\ files[j].fetch = "throw" /\ files[j].test
           /\ \E k \in PlacedPaths : k > j

\* The added-line counts of the files of the batch entries ps, summed.
RECURSIVE LinesOf(_)
LinesOf(ps) == IF ps = << >> THEN 0 ELSE files[Head(ps).path].adds + LinesOf(Tail(ps))

\* C23: in the pull-request script and the repository analyser the three
\* statistics are a fold over the files placed into batches, however the
\* limits split them: the line count is the sum of their added-line counts,
\* tests changed iff the path of one of them looks like a test, license
\* present iff the text of one of them holds a license marker.
StatisticsFoldOverPlacedFiles ==
    mode \in {"pr", "repo"} =>
        LET placed == PlacedPaths
        IN  /\ linesAdded = Number(Integer(LinesOf(Placed)))
            /\ testsChanged = Boolean(\E j \in placed : files[j].test)
            /\ licenseComment = Boolean(\E j \in placed : files[j].lic)

\* Files in two batches or more, a license marker in one of them, and a
\* skipped file whose path looks like a test while no placed file's does.
StatisticsWitness ==
    /\ mode \in {"pr", "repo"} /\ pc = "analyzing"
    /\ Len(batches) >= 2 /\ Above(linesAdded.number, Integer(3))
    /\ licenseComment.boolean /\ ~testsChanged.boolean
    /\ \E j \in DOMAIN files : files[j].test /\ j \notin PlacedPaths

\* ------------------------------------------------------- file filter
\* An entry of the raw list: its path, its type in the tree ('blob' for every
\* file of a pull request), and whether its diff or content can be retrieved.
Item(path, type, patch) == [path |-> path, type |-> type, patch |-> patch]

FilterItems ==
    { Item("src/a.js", "blob", TRUE),
      Item("logo.svg", "blob", TRUE),
      Item("LOGO.SVG", "blob", TRUE),
      Item("a.tar.gz", "blob", TRUE),
      Item("LICENSE", "blob", TRUE),
      Item("node_modules/a.js", "blob", TRUE),
      Item("my_node_modules/a.js", "blob", TRUE),
      Item("repo.git/a.js", "blob", TRUE),
      Item("svg", "blob", TRUE),
      Item("src/b.js", "blob", FALSE),
      Item("src", "tree", FALSE) }

excludedExtensions ==
    {".jpg", ".jpeg", ".png", ".gif", ".bmp", ".ico", ".svg", ".ttf", ".woff", ".woff2",
     ".eot", ".mp3", ".mp4", ".webm", ".ogg", ".wav", ".avi", ".mov", ".webp", ".zip",
     ".rar", ".tar", ".gz", ".7z", ".exe", ".dll", ".so", ".dylib", ".obj", ".lib",
     ".bin", ".apk", ".aab", ".ipa"}

excludedFiles == {"LICENSE", "LICENSE.md", "LICENSE.txt"}

excludedDirs == {"node_modules", ".git"}

\* /\.(jpg|jpeg|...|ipa)$/i.test(path): the path ends with a dot and one of the
\* extensions, in letters of either case. The alternatives of the expression
\* are the extensions of CONFIG.
BinaryPattern(path) == \E e \in excludedExtensions : endsWith(toLowerCase(path), e)

\* The predicate of allTreeItems.filter(...) in the repository analyser.
RepoKeeps(item) ==
    /\ item.type = "blob"
    /\ ~includes(item.path, "node_modules/")
    /\ ~includes(item.path, ".git/")
    /\ ~BinaryPattern(item.path)

\* if (!f.patch) continue; the PR script has no other filter.
PRKeeps(item) == item.patch

\* The directories and the file name of a path.
Segments(path) == split(path, "/")

Name(path) == Segments(path)[Len(Segments(path))]

\* The extension of a file name: what begins at its last dot, when that is
\* not its first character.
Extension(name) ==
    IF Highest(Occurrences(name, ".")) > 1 THEN From(name, Highest(Occurrences(name, ".")))
    ELSE ""

\* The four exclusions of section 4.1, on the lists of CONFIG.
Excluded(item) ==
    \/ toLowerCase(Extension(Name(item.path))) \in excludedExtensions
    \/ Name(item.path) \in excludedFiles
    \/ \E k \in 1..(Len(Segments(item.path)) - 1) : Segments(item.path)[k] \in excludedDirs
    \/ ~item.patch

\* The app analyser's filterCodeFiles.
filterCodeFiles(items) == SelectSeq(items, LAMBDA item : ~Excluded(item))

FilterOf(m, items) ==
    IF m = "app" THEN filterCodeFiles(items)
    ELSE IF m = "repo" THEN SelectSeq(items, RepoKeeps) ELSE SelectSeq(items, PRKeeps)

InitFilter == Started("listing")

\* The source-control host lists one more entry.
ListItem(item) ==
    /\ pc = "listing" /\ Len(allTreeItems) < MaxItems
    /\ allTreeItems' = Append(allTreeItems, item)
    /\ UNCHANGED << pageVars, treeVars, mode, siteVars, pc, codeFiles, batchVars, analysis_status,
                    aggVars, tailVars >>

\* The script filters the list it was given.
Filter ==
    /\ pc = "listing"
    /\ pc' = "filtered"
    /\ codeFiles' = FilterOf(mode, allTreeItems)
    /\ UNCHANGED << listVars, mode, siteVars, batchVars, analysis_status, aggVars, tailVars >>

ListAny == \E item \in FilterItems : ListItem(item)

NextFilter == ListAny \/ Filter

SpecFilter == InitFilter /\ [][NextFilter]_vars

\* C24: the file filter returns the entries of its input, in input order,
\* that have no deny-listed extension, no excluded file name, no excluded
\* directory above them and a retrievable diff or content: all of these and
\* no other entry.
FilterKeepsExactlyTheEligible ==
    pc = "filtered" => codeFiles = SelectSeq(allTreeItems, LAMBDA item : ~Excluded(item))

\* -------------------------------------------------------- pagination
\* The n entries the host returns for page p.
Page(p, n) == [k \in 1..n |-> [page |-> p, index |-> k]]

\* Faulty variant of Short: only an empty page ends the loop.
ShortEmpty(n) == n = 0

\* if (files.length < 100)
Short(n) == n < PER_PAGE

\* getAllPRFiles has been called by the PR script.
InitPages == Started("paging") /\ mode = "pr"

\* One iteration of `while (hasMoreFiles)`: the page is requested and the
\* host answers with n entries. A pull request has finitely many files: the
\* host serves at most MaxPages full pages.
RequestPage(n) ==
    /\ pc = "paging" /\ hasMoreFiles
    /\ page > MaxPages => n < PER_PAGE
    /\ fetched' = Append(fetched, [page |-> page, per_page |-> PER_PAGE,
                                   files |-> Page(page, n)])
    /\ allFiles' = allFiles \o Page(page, n)
    /\ IF Short(n) THEN hasMoreFiles' = FALSE /\ UNCHANGED page
       ELSE page' = page + 1 /\ UNCHANGED hasMoreFiles
    /\ UNCHANGED << allTreeItems, treeVars, mode, siteVars, pc, codeFiles, batchVars,
                    analysis_status, aggVars, tailVars >>

\* The request throws: nothing catches the error in getAllPRFiles or in the
\* script that awaits it.
RequestFails ==
    /\ pc = "paging" /\ hasMoreFiles
    /\ fetched' = Append(fetched, [page |-> page, per_page |-> PER_PAGE, files |-> << >>])
    /\ Crash("Not Found")
    /\ UNCHANGED << allTreeItems, page, hasMoreFiles, allFiles, treeVars, mode, siteVars, codeFiles,
                    batchVars, aggVars, rulesText, rules, r, failures, warnings,
                    notifications, pending >>

\* return allFiles;
ReturnFiles ==
    /\ pc = "paging" /\ ~hasMoreFiles
    /\ pc' = "paged"
    /\ UNCHANGED << listVars, mode, siteVars, codeFiles, batchVars, analysis_status, aggVars,
                    tailVars >>

RequestAny == \E n \in 0..PER_PAGE : RequestPage(n)

NextPages == RequestAny \/ RequestFails \/ ReturnFiles

\* Every request is answered or fails, and the function goes on when it is.
SpecPages == InitPages /\ [][NextPages]_vars /\ WF_vars(NextPages)

\* The responses so far, concatenated in the order of the requests.
RECURSIVE Concatenated(_)
Concatenated(n) == IF n = 0 THEN << >> ELSE Concatenated(n - 1) \o fetched[n].files

PagesInOrder ==
    /\ \A k \in DOMAIN fetched : fetched[k].page = k /\ fetched[k].per_page = 100
    /\ \A k \in DOMAIN fetched :
           Len(fetched[k].files) < 100 => k = Len(fetched) /\ (pc = "crashed" \/ ~hasMoreFiles)
    /\ allFiles = Concatenated(Len(fetched))
    /\ pc = "paged" => fetched # << >> /\ Len(fetched[Len(fetched)].files) < 100

\* C25: getAllPRFiles requests the pages 1, 2, 3, ... in order with 100
\* entries per page; a page of fewer than 100 entries is the last one
\* requested; the list built is the concatenation of the pages fetched, in
\* page order; and the function comes to its end (it returns, or a request
\* raises) when the host serves a short page.
PaginationStopsAtShortPage == []PagesInOrder /\ <>(pc \in {"paged", "crashed"})

\* Two full pages and a short page that is not empty have been returned.
PaginationWitness ==
    /\ pc = "paged" /\ Len(fetched) = 3
    /\ Len(allFiles) > 2 * PER_PAGE

\* ----------------------------------------------------- tree traversal
\* The names an entry of a tree can have, in the order the host lists them.
NameSeq == << "a", "b" >>

\* The tree the host returns for the directory d (the root is << >>): every
\* name is absent, a blob or a tree. An object is identified by its sha, which
\* is written as the place of the object in the repository.
TreeOf(d, kinds) ==
    LET present == SelectSeq(NameSeq, LAMBDA n : kinds[n] # "none")
    IN  [k \in DOMAIN present |->
            [path |-> << present[k] >>, type |-> kinds[present[k]],
             sha |-> Append(d, present[k])]]

Trees(d) == { TreeOf(d, kinds) : kinds \in [{"a", "b"} -> {"none", "blob", "tree"}] }

\* .filter(item => item.type === 'tree').map(dir => dir.path)
Directories(items) ==
    LET dirs == SelectSeq(items, LAMBDA item : item.type = "tree")
    IN  [k \in DOMAIN dirs |-> dirs[k].path]

\* Faulty variant of Prefixed: the path of the entry is left as it is.
Unprefixed(dirPath, item) == item

\* ({ ...item, path: `${dirPath}/${item.path}` })
Prefixed(dirPath, item) == [item EXCEPT !.path = dirPath \o @]

\* allItems.find(item => item.path === dirPath)
Find(items, dirPath) ==
    items[CHOOSE k \in DOMAIN items :
              /\ items[k].path = dirPath
              /\ \A j \in 1..(k - 1) : items[j].path # dirPath]

\* A repository has finitely many directories: at most MaxDirs below the root.
Finite(items, tree) == Len(Directories(items)) + Len(Directories(tree)) <= MaxDirs

\* getAllTreeItems has been called by the repository analyser.
InitTree == Started("root") /\ mode = "repo"

\* The root tree is fetched and its entries and directories are noted.
FetchRoot(tree) ==
    /\ pc = "root" /\ Finite(<< >>, tree)
    /\ pc' = "walking"
    /\ allItems' = tree
    /\ directoriesToProcess' = Directories(tree)
    /\ treeFetches' = << [dir |-> << >>, sha |-> << >>, ok |-> TRUE, tree |-> tree] >>
    /\ UNCHANGED << allTreeItems, pageVars, frames, contentsFetches, mode, siteVars, codeFiles, batchVars, analysis_status,
                    aggVars, tailVars >>

\* What the contents API lists for the directory at path: the entries named
\* in NameSeq, each with its full path and its type.
Contents(path, kinds) ==
    LET present == SelectSeq(NameSeq, LAMBDA n : kinds[n] # "none")
    IN  [k \in DOMAIN present |->
            [path |-> Append(path, present[k]), type |-> kinds[present[k]],
             sha |-> Append(path, present[k])]]

\* What the host can list for a directory: a is absent, a file or a
\* directory, and b is absent, a symbolic link or a directory.
Listings(path) ==
    { Contents(path, [n \in {"a", "b"} |-> IF n = "a" THEN a ELSE b]) :
          a \in {"none", "file", "dir"}, b \in {"none", "symlink", "dir"} }

\* A repository has finitely many directories: the contents API lists at
\* most MaxFolders.
Few(items, treeItems) ==
    Len(Directories(items)) + Len(Directories(treeItems)) <= MaxFolders

\* ({ path: item.path, type: item.type === 'dir' ? 'tree' : 'blob',
\*    sha: item.sha, url: item.url })
TreeItem(item) ==
    [path |-> item.path, type |-> IF item.type = "dir" THEN "tree" ELSE "blob",
     sha |-> item.sha]

\* A call of getAllItemsUsingContentsAPI: its path, its allItems and
\* treeItems, and the place in treeItems of the directory it has called
\* itself for (0 while it waits for its own request).
Frame(path, items, treeItems, at) ==
    [path |-> path, allItems |-> items, treeItems |-> treeItems, at |-> at]

\* The call for path has sent its request.
Called(path) == Frame(path, << >>, << >>, 0)

\* The calls without the innermost one.
Outer(stack) == SubSeq(stack, 1, Len(stack) - 1)

\* The place of the next directory of the call f, 0 when there is none.
NextDirectory(f) ==
    Lowest({k \in (f.at + 1)..Len(f.treeItems) : f.treeItems[k].type = "tree"})

\* How far the calls get without waiting: the innermost call goes on with
\* `for (const item of treeItems)` and calls itself for the next directory,
\* whose request goes out; or it returns its allItems, which its caller
\* appends to its own before it goes on in turn. `returned` says that the
\* outermost call has returned `items`.
RECURSIVE Resume(_)
Returns(stack, items) ==
    IF stack = << >> THEN [frames |-> << >>, returned |-> TRUE, items |-> items]
    ELSE Resume(Append(Outer(stack),
                       [stack[Len(stack)] EXCEPT !.allItems = @ \o items]))

Descends(stack, f, k) ==
    [frames |-> Append(Append(Outer(stack), [f EXCEPT !.at = k]),
                       Called(f.treeItems[k].path)),
     returned |-> FALSE, items |-> << >>]

Resume(stack) ==
    IF NextDirectory(stack[Len(stack)]) = 0
    THEN Returns(Outer(stack), stack[Len(stack)].allItems)
    ELSE Descends(stack, stack[Len(stack)], NextDirectory(stack[Len(stack)]))

\* The entries the calls under way hold.
RECURSIVE Held(_)
Held(stack) == IF stack = << >> THEN << >> ELSE Held(Outer(stack)) \o stack[Len(stack)].allItems

\* The request for the root tree throws: catch (error) calls
\* getAllItemsUsingContentsAPI(owner, repo), whose request for the contents
\* of the root goes out.
RootFails ==
    /\ pc = "root"
    /\ pc' = "fallback"
    /\ treeFetches' = << [dir |-> << >>, sha |-> << >>, ok |-> FALSE, tree |-> << >>] >>
    /\ frames' = << Called(<< >>) >>
    /\ UNCHANGED << allTreeItems, pageVars, allItems, directoriesToProcess, contentsFetches,
                    mode, siteVars, codeFiles, batchVars, analysis_status, aggVars, tailVars >>

\* What the calls have come to is taken over: when the outermost call has
\* returned, getAllTreeItems assigns its result to allItems.
Resumed(come) ==
    /\ frames' = come.frames
    /\ allItems' = IF come.returned THEN come.items ELSE allItems
    /\ pc' = IF come.returned THEN "returning" ELSE pc

\* The request of the innermost call is answered with the contents of its
\* directory: they become its treeItems and its allItems, and the call goes
\* on to its first directory.
ContentsArrive(contents) ==
    /\ pc = "fallback"
    /\ Few(Held(frames), [k \in DOMAIN contents |-> TreeItem(contents[k])])
    /\ contentsFetches' = Append(contentsFetches,
                                 [path |-> frames[Len(frames)].path, ok |-> TRUE,
                                  contents |-> contents])
    /\ Resumed(Resume(Append(Outer(frames),
                             Frame(frames[Len(frames)].path,
                                   [k \in DOMAIN contents |-> TreeItem(contents[k])],
                                   [k \in DOMAIN contents |-> TreeItem(contents[k])], 0))))
    /\ UNCHANGED << allTreeItems, pageVars, directoriesToProcess, treeFetches, mode,
                    siteVars, codeFiles, batchVars, analysis_status, aggVars, tailVars >>

\* The request of the innermost call throws: its catch (error) logs the
\* error and the call returns its allItems, which is empty.
ContentsFail ==
    /\ pc = "fallback"
    /\ contentsFetches' = Append(contentsFetches,
                                 [path |-> frames[Len(frames)].path, ok |-> FALSE,
                                  contents |-> << >>])
    /\ Resumed(Returns(Outer(frames), << >>))
    /\ UNCHANGED << allTreeItems, pageVars, directoriesToProcess, treeFetches, mode,
                    siteVars, codeFiles, batchVars, analysis_status, aggVars, tailVars >>

\* One iteration of `while (directoriesToProcess.length > 0)` in which the
\* tree of the directory is fetched.
FetchDirectory(tree) ==
    /\ pc = "walking" /\ directoriesToProcess # << >>
    /\ Finite(allItems, tree)
    /\ LET dirPath == Head(directoriesToProcess)
           dirItems == [k \in DOMAIN tree |-> Prefixed(dirPath, tree[k])]
       IN  /\ treeFetches' = Append(treeFetches,
                                    [dir |-> dirPath, sha |-> Find(allItems, dirPath).sha,
                                     ok |-> TRUE, tree |-> tree])
           /\ allItems' = allItems \o dirItems
           /\ directoriesToProcess' = Tail(directoriesToProcess) \o Directories(dirItems)
    /\ UNCHANGED << allTreeItems, pageVars, frames, contentsFetches, mode, siteVars, pc,
                    codeFiles, batchVars, analysis_status, aggVars, tailVars >>

\* One iteration in which the request throws: catch (dirError) logs it.
DirectoryFails ==
    /\ pc = "walking" /\ directoriesToProcess # << >>
    /\ LET dirPath == Head(directoriesToProcess)
       IN  treeFetches' = Append(treeFetches,
                                 [dir |-> dirPath, sha |-> Find(allItems, dirPath).sha,
                                  ok |-> FALSE, tree |-> << >>])
    /\ directoriesToProcess' = Tail(directoriesToProcess)
    /\ UNCHANGED << allTreeItems, pageVars, allItems, frames, contentsFetches, mode,
                    siteVars, pc, codeFiles, batchVars, analysis_status, aggVars, tailVars >>

\* return allItems;
ReturnItems ==
    /\ pc = "returning" \/ (pc = "walking" /\ directoriesToProcess = << >>)
    /\ pc' = "walked"
    /\ UNCHANGED << listVars, mode, siteVars, codeFiles, batchVars, analysis_status, aggVars,
                    tailVars >>

FetchRootAny == \E tree \in Trees(<< >>) : FetchRoot(tree)

FetchDirectoryAny ==
    /\ directoriesToProcess # << >>
    /\ \E tree \in Trees(Head(directoriesToProcess)) : FetchDirectory(tree)

ContentsArriveAny ==
    /\ pc = "fallback"
    /\ \E contents \in Listings(frames[Len(frames)].path) : ContentsArrive(contents)

NextTree ==
    \/ FetchRootAny \/ RootFails \/ ContentsArriveAny \/ ContentsFail
    \/ FetchDirectoryAny \/ DirectoryFails \/ ReturnItems

\* Every request is answered or fails, and the function goes on when it is.
SpecTree == InitTree /\ [][NextTree]_vars /\ WF_vars(NextTree)

\* The directories whose tree has been requested, in the order of the requests.
Walked == [k \in 1..(Len(treeFetches) - 1) |-> treeFetches[k + 1].dir]

\* The entries of the trees returned by the first n requests, each under the
\* path of its directory followed by its name, in the order of the requests.
RECURSIVE Collected(_)
Collected(n) ==
    IF n = 0 THEN << >>
    ELSE Collected(n - 1) \o
         [k \in DOMAIN treeFetches[n].tree |->
             [treeFetches[n].tree[k] EXCEPT !.path = treeFetches[n].dir \o @]]

\* q lies below the directory p.
Below(q, p) == Len(q) > Len(p) /\ SubSeq(q, 1, Len(p)) = p

\* The request for the root tree was answered.
RootFetched == treeFetches # << >> /\ treeFetches[1].ok

TraversalInOrder ==
    RootFetched =>
        /\ Walked \o directoriesToProcess = Directories(allItems)
        /\ \A j, k \in DOMAIN Walked : j # k => Walked[j] # Walked[k]
        /\ \A k \in 2..Len(treeFetches) : treeFetches[k].sha = treeFetches[k].dir
        /\ allItems = Collected(Len(treeFetches))
        /\ \A j, k \in DOMAIN allItems : j # k => allItems[j].path # allItems[k].path
        /\ \A k \in DOMAIN treeFetches :
               ~treeFetches[k].ok =>
                   \A j \in DOMAIN allItems : ~Below(allItems[j].path, treeFetches[k].dir)
        /\ pc = "walked" => directoriesToProcess = << >>

\* C26: when the root tree is fetched, getAllTreeItems requests the tree of
\* every directory it discovers exactly once, in the order of discovery, and
\* comes to its end; its result holds every entry of every tree it was
\* returned exactly once, under the path of the directory followed by the
\* name; a directory whose request throws loses the entries below it and no
\* other, and the directories after it are still requested.
TraversalVisitsEveryDirectoryOnce == []TraversalInOrder /\ (RootFetched ~> pc = "walked")

\* A directory could not be fetched, a directory discovered after it was, and
\* a directory two levels below the root gave an entry.
TraversalWitness ==
    /\ pc = "walked" /\ RootFetched
    /\ \E j, k \in DOMAIN treeFetches : j < k /\ ~treeFetches[j].ok /\ treeFetches[k].ok
    /\ \E k \in DOMAIN allItems : Len(allItems[k].path) = 3

====
